---- MODULE Spec2Model ----
(***************************************************************************)
(* gsts: credential exchange and session lifecycle.                        *)
(*                                                                         *)
(* The model follows CredentialsManager (assumeRoleWithSAML,               *)
(* saveCredentials, loadCredentials) and Session (toIni, fromIni,          *)
(* isValid).  A call of assumeRoleWithSAML is split at its awaits on the   *)
(* STS client: the remote service answers each request either with a       *)
(* credential bundle or with an error.                                     *)
(***************************************************************************)
EXTENDS Integers, Sequences, FiniteSets, TLC

VARIABLES
    cacheDir,         \* TRUE iff the manager was constructed with a cache directory
    pc,               \* position inside assumeRoleWithSAML: idle, send1, send2, done
    args,             \* arguments of the running assumeRoleWithSAML call
    sessionDuration,  \* the local variable `sessionDuration`
    requests,         \* AssumeRoleWithSAMLCommand inputs sent so far in this call
    responses,        \* what the service answered to each of them
    outcome,          \* how the call settled: pending, returned or threw
    file,             \* the credentials file: exists, mode, text
    saved,            \* per profile, the session last passed to saveCredentials
    lastLoad,         \* the last loadCredentials call and how it settled
    lastValid,        \* the last Session.isValid call and what it returned
    lastSave,         \* the last save: its profile and what that profile held before
    mainRun,          \* the last run of the main routine's cached-session check
    lastPrepare,      \* the last prepareRoleWithSAML call and how it settled
    lastParse,        \* the last parseSamlResponse call and what it returned
    lastExport,       \* the last exportAsJSON call (earlier revision) and its text
    lastConfig,       \* the last run of the argument middleware and its argv
    handler,          \* the route handler's run on the intercepted request
    savers,           \* invocations that save concurrently: where each one is
    login,            \* the SSO navigation of a run and the instances it spawned
    lastLog           \* the last call of a Logger method and what it wrote

vars == <<cacheDir, pc, args, sessionDuration, requests, responses, outcome,
          file, saved, lastLoad, lastValid, lastSave, mainRun, lastPrepare,
          lastParse, lastExport, lastConfig, handler, savers, login, lastLog>>

(***************************************************************************)
(* Values.                                                                 *)
(***************************************************************************)

\* `undefined` for an optional number (a duration).
NoValue == -1

\* `undefined` for an optional string.
Undefined == "<undefined>"

\* Variant: only undefined is falsy.
Truthy_ZeroCounts(n) == n # NoValue

\* A JavaScript number used as a condition: undefined and 0 are falsy.
Truthy(n) == n # NoValue /\ n # 0

\* A JavaScript string used as a condition: undefined and '' are falsy.
TruthyStr(s) == s # Undefined /\ s # ""

\* A piece of message text: a run of words, or a run of decimal digits.
Word(w) == [w |-> w, digits |-> <<>>]
Digits(d) == [w |-> "", digits |-> d]

\* Number(string of decimal digits).
RECURSIVE Number(_)
Number(d) ==
    IF d = <<>> THEN 0
    ELSE 10 * Number(SubSeq(d, 1, Len(d) - 1)) + d[Len(d)]

(***************************************************************************)
(* Roles, as built by the parser.                                          *)
(***************************************************************************)
Role(name, roleArn, principalArn, duration) ==
    [name |-> name, roleArn |-> roleArn, principalArn |-> principalArn,
     sessionDuration |-> duration]

RoleFoobar ==
    Role("Foobar", "arn:aws:iam::123456789:role/Foobar",
         "arn:aws:iam::123456789:saml-provider/GSuite", NoValue)

RoleFoobiz ==
    Role("Foobiz", "arn:aws:iam::987654321:role/Foobiz",
         "arn:aws:iam::987654321:saml-provider/GSuite", 10000)

Roles == {RoleFoobar, RoleFoobiz}

RoleArns == {r.roleArn : r \in Roles}

Profiles == {"a", "b"}

SamlAssertions == {"T2NjdXB5IE1hcnMK"}

\* --aws-session-duration: absent, or a number.
CustomDurations == {NoValue, 0, 900, 60000}

(***************************************************************************)
(* Errors.                                                                 *)
(***************************************************************************)
Err(name, code, message) == [name |-> name, code |-> code, message |-> message]

NoError == Err("", "", <<>>)

\* "Value '60000' at 'durationSeconds' failed to satisfy constraint: Member
\* must have value less than or equal to <max>"
MsgCap(max) ==
    <<Word("1 validation error detected: Value at"), Word("durationSeconds"),
      Word("failed to satisfy constraint: Member must have"),
      Word("value less than or equal to "), Digits(max)>>

\* "... Member must have value greater than or equal to 900"
MsgFloor ==
    <<Word("1 validation error detected: Value at"), Word("durationSeconds"),
      Word("failed to satisfy constraint: Member must have"),
      Word("value greater than or equal to "), Digits(<<9, 0, 0>>)>>

\* A length constraint on another member.
MsgOtherMember ==
    <<Word("1 validation error detected: Value at"), Word("roleArn"),
      Word("failed to satisfy constraint: Member must have length"),
      Word("value less than or equal to "), Digits(<<2, 0, 4, 8>>)>>

MsgToken == <<Word("Token must be redeemed within 5 minutes of issuance")>>

MsgTransport == <<Word("connect ETIMEDOUT")>>

\* What the token-exchange service, or the transport, can reject with.
StsErrors ==
    { Err("Error", "ValidationError", MsgCap(<<4, 3, 2, 0, 0>>)),
      Err("Error", "ValidationError", MsgCap(<<3, 6, 0, 0>>)),
      Err("Error", "ValidationError", MsgFloor),
      Err("Error", "ValidationError", MsgOtherMember),
      Err("Error", "InvalidIdentityToken", MsgToken),
      Err("Error", "AccessDenied", MsgCap(<<4, 3, 2, 0, 0>>)),
      Err("Error", "ETIMEDOUT", MsgTransport) }

(***************************************************************************)
(* Dates.  Instants are milliseconds; Invalid Date has valid = FALSE.      *)
(***************************************************************************)
DateOf(ms) == [valid |-> TRUE, ms |-> ms]

InvalidDate == [valid |-> FALSE, ms |-> 0]

\* The ISO-8601 strings of the instants 10 s, 20 s, ... after the epoch.
IsoStrings ==
    << "1970-01-01T00:00:10.000Z", "1970-01-01T00:00:20.000Z",
       "1970-01-01T00:00:30.000Z", "1970-01-01T00:00:40.000Z",
       "1970-01-01T00:00:50.000Z", "1970-01-01T00:01:00.000Z" >>

\* Date.prototype.toISOString
ToISOString(d) == IsoStrings[d.ms \div 10000]

\* new Date(string)
NewDate(s) ==
    IF \E k \in 1..Len(IsoStrings) : IsoStrings[k] = s
    THEN DateOf(10000 * (CHOOSE k \in 1..Len(IsoStrings) : IsoStrings[k] = s))
    ELSE InvalidDate

\* Credential bundles of an AssumeRoleWithSAML response.
StsCredentials ==
    { [AccessKeyId |-> "AAAAAABBBBBBCCCCCCDDDDDD",
       SecretAccessKey |-> "0nKJNoiu9oSJBjkb+aDvVVVvvvB+ErF33r4",
       SessionToken |-> "DMMDnnnnKAkjSJi",
       Expiration |-> DateOf(20000)],
      [AccessKeyId |-> "EEEEEEFFFFFFGGGGGGHHHHHH",
       SecretAccessKey |-> "1oLKOpjv0pTKCklc+bEwWWWwwwC+FsG44s5",
       SessionToken |-> "ENNEooooLBlkTKj",
       Expiration |-> DateOf(50000)] }

(***************************************************************************)
(* Session.                                                                *)
(***************************************************************************)

\* new Session({ accessKeyId, secretAccessKey, sessionToken, expiresAt, role,
\* samlAssertion }): the `profile` passed by assumeRoleWithSAML is not kept.
NewSession(accessKeyId, secretAccessKey, sessionToken, expiresAt, role, samlAssertion) ==
    [version |-> 1,
     accessKeyId |-> accessKeyId,
     secretAccessKey |-> secretAccessKey,
     sessionToken |-> sessionToken,
     expiresAt |-> expiresAt,
     role |-> role,
     samlAssertion |-> samlAssertion]

\* Placeholder where no session is held.
NoSession ==
    NewSession("", "", "", InvalidDate, Role("", "", "", NoValue), Undefined)

\* The sessions a caller can build from a service response.
Sessions ==
    { NewSession(c.AccessKeyId, c.SecretAccessKey, c.SessionToken, c.Expiration, r, a) :
        c \in StsCredentials, r \in Roles, a \in SamlAssertions }

\* The keys of a profile section, in the order toIni lists them.
IniKeys ==
    << "aws_access_key_id", "aws_role_arn", "aws_role_name",
       "aws_role_principal_arn", "aws_secret_access_key",
       "aws_session_expiration", "aws_session_token", "aws_saml_assertion" >>

\* Variant: the principal ARN key is filled from the role ARN.
toIni_PrincipalFromRole(session) ==
    [aws_access_key_id |-> session.accessKeyId,
     aws_role_arn |-> session.role.roleArn,
     aws_role_name |-> session.role.name,
     aws_role_principal_arn |-> session.role.roleArn,
     aws_secret_access_key |-> session.secretAccessKey,
     aws_session_expiration |-> ToISOString(session.expiresAt),
     aws_session_token |-> session.sessionToken,
     aws_saml_assertion |-> session.samlAssertion]

\* Session.toIni(profile): the flat section of the session (under `profile`).
toIni(session) ==
    [aws_access_key_id |-> session.accessKeyId,
     aws_role_arn |-> session.role.roleArn,
     aws_role_name |-> session.role.name,
     aws_role_principal_arn |-> session.role.principalArn,
     aws_secret_access_key |-> session.secretAccessKey,
     aws_session_expiration |-> ToISOString(session.expiresAt),
     aws_session_token |-> session.sessionToken,
     aws_saml_assertion |-> session.samlAssertion]

\* Reading a key of a parsed section: undefined when the key is absent.
Get(content, key) == IF key \in DOMAIN content THEN content[key] ELSE Undefined

\* Session.fromIni(content): the Role constructor requires name, role ARN and
\* principal ARN and throws otherwise; sessionDuration is not stored.
fromIni(content) ==
    LET name == Get(content, "aws_role_name")
        roleArn == Get(content, "aws_role_arn")
        principalArn == Get(content, "aws_role_principal_arn")
    IN  IF ~TruthyStr(name) THEN
            [ok |-> FALSE, session |-> NoSession,
             error |-> Err("Error", "", <<Word("Role name is required")>>)]
        ELSE IF ~TruthyStr(roleArn) THEN
            [ok |-> FALSE, session |-> NoSession,
             error |-> Err("Error", "", <<Word("Role ARN is required")>>)]
        ELSE IF ~TruthyStr(principalArn) THEN
            [ok |-> FALSE, session |-> NoSession,
             error |-> Err("Error", "", <<Word("Principal ARN is required")>>)]
        ELSE
            [ok |-> TRUE,
             session |->
                 NewSession(Get(content, "aws_access_key_id"),
                            Get(content, "aws_secret_access_key"),
                            Get(content, "aws_session_token"),
                            NewDate(Get(content, "aws_session_expiration")),
                            Role(name, roleArn, principalArn, NoValue),
                            Get(content, "aws_saml_assertion")),
             error |-> NoError]

\* Session.isValid(), with `now` the value of Date.now().  A Date object is
\* always truthy; a comparison with the NaN time of an Invalid Date is false.
isValid(session, now) ==
    IF \/ ~TruthyStr(session.accessKeyId)
       \/ ~TruthyStr(session.secretAccessKey)
       \/ ~TruthyStr(session.sessionToken)
    THEN FALSE
    ELSE IF session.expiresAt.valid /\ session.expiresAt.ms <= now
    THEN FALSE
    ELSE TRUE

(***************************************************************************)
(* The ini text of the credentials file.                                   *)
(***************************************************************************)
Header(name) == [kind |-> "section", k |-> name, v |-> ""]
Pair(k, v) == [kind |-> "pair", k |-> k, v |-> v]

\* ini.encode({ [profile]: section }): "[profile]" and one "key=value" line
\* per key; an undefined value is written as the text undefined.
IniEncode(profile, section) ==
    <<Header(profile)>> \o
    [i \in 1..Len(IniKeys) |->
        Pair(IniKeys[i],
             IF section[IniKeys[i]] = Undefined THEN "undefined"
             ELSE section[IniKeys[i]])]

\* The index of the header line that governs line i (0 when there is none).
GoverningHeader(text, i) ==
    IF \E j \in 1..i : text[j].kind = "section"
    THEN CHOOSE j \in 1..i :
            /\ text[j].kind = "section"
            /\ \A m \in (j + 1)..i : text[m].kind # "section"
    ELSE 0

\* ini.parse(text): an object with one member per section name, each holding
\* the pairs that follow a header of that name; a later pair of the same key
\* replaces an earlier one.
IniParse(text) ==
    LET names == {text[j].k : j \in {m \in 1..Len(text) : text[m].kind = "section"}}
        linesOf(n) ==
            {i \in 1..Len(text) :
                /\ text[i].kind = "pair"
                /\ GoverningHeader(text, i) # 0
                /\ text[GoverningHeader(text, i)].k = n}
        keysOf(n) == {text[i].k : i \in linesOf(n)}
        lastOf(n, key) ==
            CHOOSE i \in linesOf(n) :
                /\ text[i].k = key
                /\ \A m \in linesOf(n) : text[m].k = key => m <= i
    IN  [n \in names |-> [key \in keysOf(n) |-> text[lastOf(n, key)].v]]

NoFile == [exists |-> FALSE, mode |-> "", text |-> <<>>]

(***************************************************************************)
(* CredentialsManager.assumeRoleWithSAML                                   *)
(***************************************************************************)

\* /durationSeconds/.test(message)
MentionsDurationSeconds(message) ==
    \E i \in 1..Len(message) : message[i].w = "durationSeconds"

\* Where REGEX_PATTERN_DURATION_SECONDS, /value less than or equal to ([0-9]+)/,
\* matches: the phrase directly followed by digits.
CapMatches(message) ==
    {i \in 1..Len(message) :
        /\ message[i].w = "value less than or equal to "
        /\ i < Len(message)
        /\ message[i + 1].digits # <<>>}

\* message.match(REGEX_PATTERN_DURATION_SECONDS)[1]: the digits of the first
\* match.
CapDigits(message) ==
    LET i == CHOOSE m \in CapMatches(message) :
                 \A n \in CapMatches(message) : m <= n
    IN  message[i + 1].digits

\* Variant: the error code is not looked at.
IsDurationValidationError_AnyCode(e) == MentionsDurationSeconds(e.message)

\* The catch block rethrows unless this holds of the error.
IsDurationValidationError(e) ==
    e.code = "ValidationError" /\ MentionsDurationSeconds(e.message)

\* new AssumeRoleWithSAMLCommand({ DurationSeconds, PrincipalArn, RoleArn,
\* SAMLAssertion })
Command(duration, role, samlAssertion) ==
    [DurationSeconds |-> duration,
     PrincipalArn |-> role.principalArn,
     RoleArn |-> role.roleArn,
     SAMLAssertion |-> samlAssertion]

NoCredentials ==
    [AccessKeyId |-> "", SecretAccessKey |-> "", SessionToken |-> "",
     Expiration |-> InvalidDate]

Resolved(credentials) == [ok |-> TRUE, credentials |-> credentials, error |-> NoError]
Rejected(e) == [ok |-> FALSE, credentials |-> NoCredentials, error |-> e]

Pending == [kind |-> "pending", defined |-> FALSE, session |-> NoSession, error |-> NoError]
Returned(session) == [kind |-> "returned", defined |-> TRUE, session |-> session, error |-> NoError]
ReturnedUndefined == [kind |-> "returned", defined |-> FALSE, session |-> NoSession, error |-> NoError]
Threw(e) == [kind |-> "threw", defined |-> FALSE, session |-> NoSession, error |-> e]

NoArgs ==
    [samlAssertion |-> "", role |-> Role("", "", "", NoValue), profile |-> "",
     customSessionDuration |-> NoValue]

\* Entries of `saved`.
NotSaved == [saved |-> FALSE, session |-> NoSession]
Saved(session) == [saved |-> TRUE, session |-> session]

\* Values of `lastLoad` and `lastValid`.
NotLoaded == [called |-> FALSE, profile |-> "", roleArn |-> Undefined, result |-> Pending]
Loaded(profile, roleArn, result) ==
    [called |-> TRUE, profile |-> profile, roleArn |-> roleArn, result |-> result]

NotChecked == [called |-> FALSE, session |-> NoSession, now |-> 0, result |-> FALSE]
Checked(session, now, result) ==
    [called |-> TRUE, session |-> session, now |-> now, result |-> result]

\* Values of `mainRun` and `lastPrepare` when nothing has run.
NotRun ==
    [called |-> FALSE, headful |-> FALSE, force |-> FALSE, now |-> 0, outcome |-> "",
     isAuthenticated |-> FALSE, launched |-> FALSE,
     output |-> [printed |-> FALSE, format |-> Undefined, content |-> NoSession]]
NotPrepared ==
    [called |-> FALSE, roles |-> <<>>, customRoleArn |-> Undefined, kind |-> "",
     roleIsNull |-> TRUE, roleToAssume |-> Role("", "", "", NoValue),
     availableRoles |-> <<>>, samlAssertion |-> Undefined,
     error |-> NoError, errorRoles |-> <<>>]

\* Values of `lastParse`, `lastExport` and `lastConfig` when nothing has run.
NotParsed == [called |-> FALSE, attributes |-> <<>>, duration |-> NoValue, roles |-> <<>>]
NotExported == [called |-> FALSE, profile |-> Undefined, json |-> <<>>]
NotConfigured == [called |-> FALSE, revision |-> ""]

\* Values of `handler`, `savers`, `login` and `lastLog` when nothing has run.
NotHandled ==
    [stage |-> "none", isTTY |-> FALSE, output |-> Undefined, customRoleArn |-> Undefined,
     kind |-> "", availableRoles |-> <<>>, roleIsNull |-> TRUE,
     roleToAssume |-> Role("", "", "", NoValue), samlAssertion |-> Undefined,
     result |-> Pending, continued |-> 0, aborted |-> 0, printed |-> FALSE,
     fileBefore |-> [exists |-> FALSE, mode |-> "", text |-> <<>>]]
NoSavers == <<>>
NotNavigated == [invoked |-> FALSE, userArgs |-> <<>>, runs |-> <<>>]
NotLogged ==
    [called |-> FALSE, line |-> 0, level |-> "", secrets |-> {}, verbosity |-> 0,
     isTTY |-> FALSE, emitted |-> FALSE, target |-> ""]

\* Values of `lastSave`: the save step of the last saveCredentials, or of the
\* last assumeRoleWithSAML once it got that far. `called` says the file was written,
\* `skipped` that there is no credentials file to write; `previous` is what
\* the profile held before, `modeBefore` and `modeAfter` are the permission
\* bits of the file before the write ("" for no file) and after the save.
NeverSaved ==
    [called |-> FALSE, skipped |-> FALSE, profile |-> "", previous |-> NotSaved,
     modeBefore |-> "", modeAfter |-> ""]
SaveSkipped(profile) == [NeverSaved EXCEPT !.skipped = TRUE, !.profile = profile]
SavedOver(profile, previous, before, after) ==
    [called |-> TRUE, skipped |-> FALSE, profile |-> profile, previous |-> previous,
     modeBefore |-> IF before.exists THEN before.mode ELSE "", modeAfter |-> after.mode]

\* Variant: the file is opened with the exclusive flag, so an existing file
\* is left as it is.
WriteFile_KeepsExisting(f, text) ==
    IF f.exists THEN f ELSE [exists |-> TRUE, mode |-> "0644", text |-> text]

\* writeFile(path, contents): replaces the content; an existing file keeps its
\* mode, a new one gets 0666 less the umask (022).
WriteFile(f, text) ==
    [exists |-> TRUE, mode |-> IF f.exists THEN f.mode ELSE "0644", text |-> text]

\* Variant: the permission bits are not touched.
Chmod_Noop(f, mode) == f

\* chmod(path, mode)
Chmod(f, mode) == [f EXCEPT !.mode = mode]

\* The file after saveCredentials(profile, session): writeFile replaces the
\* whole content by the encoding of the one section, chmod sets 0600.
WrittenFile(profile, session) ==
    Chmod(WriteFile(file, IniEncode(profile, toIni(session))), "0600")

\* assumeRoleWithSAML up to its first await: with a custom duration the
\* request inside the try block, otherwise the request after it.
Call(samlAssertion, role, profile, customSessionDuration) ==
    /\ pc = "idle"
    /\ args' = [samlAssertion |-> samlAssertion, role |-> role, profile |-> profile,
                customSessionDuration |-> customSessionDuration]
    /\ IF Truthy(customSessionDuration)
       THEN /\ sessionDuration' = customSessionDuration
            /\ requests' = <<Command(customSessionDuration, role, samlAssertion)>>
            /\ pc' = "send1"
       ELSE /\ sessionDuration' = role.sessionDuration
            /\ requests' = <<Command(role.sessionDuration, role, samlAssertion)>>
            /\ pc' = "send2"
    /\ responses' = <<>>
    /\ outcome' = Pending
    /\ lastLoad' = NotLoaded
    /\ lastValid' = NotChecked
    /\ mainRun' = NotRun
    /\ lastPrepare' = NotPrepared
    /\ lastSave' = NeverSaved
    /\ UNCHANGED <<cacheDir, handler, savers, login, lastLog, lastParse, lastExport, lastConfig, file, saved>>

\* The request of the try block resolves: its response is dropped and the
\* request after the try block is sent.
FirstResolves(credentials) ==
    /\ pc = "send1"
    /\ responses' = Append(responses, Resolved(credentials))
    /\ requests' = Append(requests, Command(sessionDuration, args.role, args.samlAssertion))
    /\ pc' = "send2"
    /\ UNCHANGED <<cacheDir, handler, savers, login, lastLog, lastParse, lastExport, lastConfig, args, sessionDuration, outcome, file, saved, lastLoad, lastValid,
                   lastSave, mainRun, lastPrepare>>

\* Variant: the retry is sent with the duration that was just rejected.
FirstRejects_KeepsDuration(e) ==
    /\ pc = "send1"
    /\ responses' = Append(responses, Rejected(e))
    /\ IF ~IsDurationValidationError(e)
       THEN /\ outcome' = Threw(e)
            /\ pc' = "done"
            /\ UNCHANGED requests
       ELSE IF CapMatches(e.message) = {}
       THEN /\ outcome' = ReturnedUndefined
            /\ pc' = "done"
            /\ UNCHANGED requests
       ELSE /\ requests' = Append(requests,
                   Command(sessionDuration, args.role, args.samlAssertion))
            /\ pc' = "send2"
            /\ UNCHANGED outcome
    /\ UNCHANGED <<cacheDir, handler, savers, login, lastLog, lastParse, lastExport, lastConfig, args, sessionDuration, file, saved, lastLoad, lastValid,
                   lastSave, mainRun, lastPrepare>>

\* The request of the try block rejects: the catch block.
FirstRejects(e) ==
    /\ pc = "send1"
    /\ responses' = Append(responses, Rejected(e))
    /\ IF ~IsDurationValidationError(e)
       THEN /\ outcome' = Threw(e)
            /\ pc' = "done"
            /\ UNCHANGED <<sessionDuration, requests>>
       ELSE IF CapMatches(e.message) = {}
       THEN /\ outcome' = ReturnedUndefined
            /\ pc' = "done"
            /\ UNCHANGED <<sessionDuration, requests>>
       ELSE /\ sessionDuration' = Number(CapDigits(e.message))
            /\ requests' = Append(requests,
                   Command(Number(CapDigits(e.message)), args.role, args.samlAssertion))
            /\ pc' = "send2"
            /\ UNCHANGED outcome
    /\ UNCHANGED <<cacheDir, handler, savers, login, lastLog, lastParse, lastExport, lastConfig, args, file, saved, lastLoad, lastValid,
                   lastSave, mainRun, lastPrepare>>

\* The request after the try block resolves: the session is built, saved when
\* a credentials file is configured, and returned.
SecondResolves(credentials) ==
    /\ pc = "send2"
    /\ responses' = Append(responses, Resolved(credentials))
    /\ LET session == NewSession(credentials.AccessKeyId, credentials.SecretAccessKey,
                                 credentials.SessionToken, credentials.Expiration,
                                 args.role, args.samlAssertion)
       IN  /\ IF cacheDir
              THEN /\ file' = WrittenFile(args.profile, session)
                   /\ saved' = [saved EXCEPT ![args.profile] = Saved(session)]
                   /\ lastSave' = SavedOver(args.profile, saved[args.profile], file,
                                            WrittenFile(args.profile, session))
              ELSE /\ lastSave' = SaveSkipped(args.profile)
                   /\ UNCHANGED <<file, saved>>
           /\ outcome' = Returned(session)
    /\ pc' = "done"
    /\ UNCHANGED <<cacheDir, handler, savers, login, lastLog, lastParse, lastExport, lastConfig, args, sessionDuration, requests, lastLoad, lastValid,
                   mainRun, lastPrepare>>

\* Variant: a cap-exceeded rejection of the second request is retried as well.
SecondRejects_RetriesAgain(e) ==
    /\ pc = "send2"
    /\ responses' = Append(responses, Rejected(e))
    /\ IF IsDurationValidationError(e) /\ CapMatches(e.message) # {} /\ Len(requests) < 3
       THEN /\ sessionDuration' = Number(CapDigits(e.message))
            /\ requests' = Append(requests,
                   Command(Number(CapDigits(e.message)), args.role, args.samlAssertion))
            /\ UNCHANGED <<pc, outcome>>
       ELSE /\ outcome' = Threw(e)
            /\ pc' = "done"
            /\ UNCHANGED <<sessionDuration, requests>>
    /\ UNCHANGED <<cacheDir, handler, savers, login, lastLog, lastParse, lastExport, lastConfig, args, file, saved, lastLoad, lastValid,
                   lastSave, mainRun, lastPrepare>>

\* Variant: the credentials file is removed when the request rejects.
SecondRejects_RemovesFile(e) ==
    /\ pc = "send2"
    /\ responses' = Append(responses, Rejected(e))
    /\ outcome' = Threw(e)
    /\ pc' = "done"
    /\ file' = NoFile
    /\ UNCHANGED <<cacheDir, handler, savers, login, lastLog, lastParse, lastExport, lastConfig, args, sessionDuration, requests, saved, lastLoad, lastValid,
                   lastSave, mainRun, lastPrepare>>

\* The request after the try block rejects: the error leaves the call.
SecondRejects(e) ==
    /\ pc = "send2"
    /\ responses' = Append(responses, Rejected(e))
    /\ outcome' = Threw(e)
    /\ pc' = "done"
    /\ UNCHANGED <<cacheDir, handler, savers, login, lastLog, lastParse, lastExport, lastConfig, args, sessionDuration, requests, file, saved, lastLoad, lastValid,
                   lastSave, mainRun, lastPrepare>>

\* The caller has taken the result of the call; the manager is ready for the
\* next one.
Return ==
    /\ pc = "done"
    /\ pc' = "idle"
    /\ args' = NoArgs
    /\ sessionDuration' = NoValue
    /\ requests' = <<>>
    /\ responses' = <<>>
    /\ outcome' = Pending
    /\ UNCHANGED <<cacheDir, handler, savers, login, lastLog, lastParse, lastExport, lastConfig, file, saved, lastLoad, lastValid, lastSave, mainRun, lastPrepare>>

(***************************************************************************)
(* CredentialsManager.saveCredentials and loadCredentials                  *)
(***************************************************************************)

\* saveCredentials(profile, session) called on its own.  Without a cache
\* directory credentialsFile is null and dirname(null) throws before anything
\* is written.
SaveCredentials(profile, session) ==
    /\ pc = "idle"
    /\ IF cacheDir
       THEN /\ file' = WrittenFile(profile, session)
            /\ saved' = [saved EXCEPT ![profile] = Saved(session)]
            /\ lastSave' = SavedOver(profile, saved[profile], file,
                                     WrittenFile(profile, session))
       ELSE UNCHANGED <<file, saved, lastSave>>
    /\ lastLoad' = NotLoaded
    /\ lastValid' = NotChecked
    /\ mainRun' = NotRun
    /\ lastPrepare' = NotPrepared
    /\ UNCHANGED <<cacheDir, handler, savers, login, lastLog, lastParse, lastExport, lastConfig, pc, args, sessionDuration, requests, responses, outcome>>

\* Someone else changes the permission bits of the credentials file.
ExternalChmod(mode) ==
    /\ pc = "idle"
    /\ file.exists
    /\ file.mode # mode
    /\ file' = Chmod(file, mode)
    /\ lastLoad' = NotLoaded
    /\ lastValid' = NotChecked
    /\ mainRun' = NotRun
    /\ lastPrepare' = NotPrepared
    /\ UNCHANGED <<cacheDir, handler, savers, login, lastLog, lastParse, lastExport, lastConfig, pc, args, sessionDuration, requests, responses, outcome,
                   saved, lastSave>>

\* What loadCredentials(profile, roleArn) settles with.
\* Variant: a missing profile section is reported like a missing file.
LoadResult_MissingProfileIsENOENT(profile, roleArn) ==
    IF ~cacheDir THEN
        Threw(Err("TypeError", "ERR_INVALID_ARG_TYPE",
                  <<Word("The \"path\" argument must be of type string")>>))
    ELSE IF ~file.exists \/ profile \notin DOMAIN IniParse(file.text) THEN
        Threw(Err("Error", "ENOENT", <<Word("ENOENT: no such file or directory")>>))
    ELSE LET parsed == fromIni(IniParse(file.text)[profile])
         IN  IF ~parsed.ok THEN Threw(parsed.error)
             ELSE IF TruthyStr(roleArn) /\ TruthyStr(parsed.session.role.roleArn)
             THEN Threw(Err("Error", "", <<Word("Invalid role ARN")>>))
             ELSE Returned(parsed.session)

LoadResult(profile, roleArn) ==
    IF ~cacheDir THEN
        Threw(Err("TypeError", "ERR_INVALID_ARG_TYPE",
                  <<Word("The \"path\" argument must be of type string")>>))
    ELSE IF ~file.exists THEN
        Threw(Err("Error", "ENOENT", <<Word("ENOENT: no such file or directory")>>))
    ELSE IF profile \notin DOMAIN IniParse(file.text) THEN
        Threw(Err("Error", "",
                  <<Word("Credentials for profile"), Word(profile), Word("are not available.")>>))
    ELSE LET parsed == fromIni(IniParse(file.text)[profile])
         IN  IF ~parsed.ok THEN Threw(parsed.error)
             ELSE IF TruthyStr(roleArn) /\ TruthyStr(parsed.session.role.roleArn)
             THEN Threw(Err("Error", "", <<Word("Invalid role ARN")>>))
             ELSE Returned(parsed.session)

LoadCredentials(profile, roleArn) ==
    /\ pc = "idle"
    /\ lastLoad' = Loaded(profile, roleArn, LoadResult(profile, roleArn))
    /\ lastValid' = NotChecked
    /\ mainRun' = NotRun
    /\ lastPrepare' = NotPrepared
    /\ UNCHANGED <<cacheDir, handler, savers, login, lastLog, lastParse, lastExport, lastConfig, pc, args, sessionDuration, requests, responses, outcome,
                   file, saved, lastSave>>

(***************************************************************************)
(* Session.isValid on a session the caller holds                           *)
(***************************************************************************)
MaxNow == 6

\* The values Date.now() is read at.
Nows == {k * 10000 : k \in 0..MaxNow}

\* The main routine calls isValid on the session loadCredentials returned.
IsValid(now) ==
    /\ pc = "idle"
    /\ lastLoad.called
    /\ lastLoad.result.kind = "returned"
    /\ lastValid' = Checked(lastLoad.result.session, now,
                             isValid(lastLoad.result.session, now))
    /\ mainRun' = NotRun
    /\ UNCHANGED <<cacheDir, handler, savers, login, lastLog, lastParse, lastExport, lastConfig, pc, args, sessionDuration, requests, responses, outcome,
                   file, saved, lastLoad, lastSave, lastPrepare>>

\* formatOutput(content, format): what is written to the standard output.
formatOutput(content, format) ==
    IF format = Undefined THEN [printed |-> FALSE, format |-> Undefined, content |-> NoSession]
    ELSE [printed |-> TRUE, format |-> format, content |-> content]

\* Variant: a valid cached session is served whatever --force says.
MainCachedSession_IgnoresForce(awsProfile, awsRoleArn) ==
    /\ pc = "idle"
    /\ ~lastLoad.called
    /\ \E load \in {LoadResult(awsProfile, awsRoleArn)},
          headful, force \in BOOLEAN, now \in Nows, output \in {Undefined, "json"} :
        \E valid \in {~headful /\ load.kind = "returned"
                         /\ isValid(load.session, now)} :
        \E result \in {IF headful THEN "reauth"
                        ELSE IF load.kind = "threw"
                             THEN IF load.error.code # "ENOENT" THEN "threw" ELSE "reauth"
                             ELSE IF valid THEN "served" ELSE "reauth"} :
            /\ lastLoad' = IF headful THEN NotLoaded
                                      ELSE Loaded(awsProfile, awsRoleArn, load)
            /\ lastValid' = IF ~headful /\ load.kind = "returned"
                            THEN Checked(load.session, now, valid)
                            ELSE NotChecked
            /\ mainRun' = [called |-> TRUE, headful |-> headful, force |-> force,
                           now |-> IF headful THEN 0 ELSE now,
                           outcome |-> result,
                           isAuthenticated |-> valid,
                           launched |-> (result = "reauth"),
                           output |-> IF valid THEN formatOutput(load.session, output)
                                      ELSE formatOutput(NoSession, Undefined)]
    /\ pc' = "main"
    /\ UNCHANGED <<cacheDir, handler, savers, login, lastLog, lastParse, lastExport, lastConfig, args, sessionDuration, requests, responses, outcome,
                   file, saved, lastSave, lastPrepare>>

\* The main routine up to the launch of the browser: the cached session is
\* loaded unless the run is headful and, unless --force, served when valid.
\* It is the first thing its process does, so nothing was loaded before it.
\* `outcome` is "served" (the routine returned after printing), "reauth"
\* (it went on to launch the browser) or "threw" (it rejected, which ends the
\* process through the unhandledRejection handler).
MainCachedSession(awsProfile, awsRoleArn) ==
    /\ pc = "idle"
    /\ ~lastLoad.called
    /\ \E load \in {LoadResult(awsProfile, awsRoleArn)},
          headful, force \in BOOLEAN, now \in Nows, output \in {Undefined, "json"} :
        \E valid \in {~headful /\ load.kind = "returned" /\ ~force
                         /\ isValid(load.session, now)} :
        \E result \in {IF headful THEN "reauth"
                        ELSE IF load.kind = "threw"
                             THEN IF load.error.code # "ENOENT" THEN "threw" ELSE "reauth"
                             ELSE IF valid THEN "served" ELSE "reauth"} :
            /\ lastLoad' = IF headful THEN NotLoaded
                                      ELSE Loaded(awsProfile, awsRoleArn, load)
            /\ lastValid' = IF ~headful /\ load.kind = "returned" /\ ~force
                            THEN Checked(load.session, now, valid)
                            ELSE NotChecked
            /\ mainRun' = [called |-> TRUE, headful |-> headful, force |-> force,
                           now |-> IF headful THEN 0 ELSE now,
                           outcome |-> result,
                           isAuthenticated |-> valid,
                           launched |-> (result = "reauth"),
                           output |-> IF valid THEN formatOutput(load.session, output)
                                      ELSE formatOutput(NoSession, Undefined)]
    /\ pc' = "main"
    /\ UNCHANGED <<cacheDir, handler, savers, login, lastLog, lastParse, lastExport, lastConfig, args, sessionDuration, requests, responses, outcome,
                   file, saved, lastSave, lastPrepare>>

\* The run of the main routine is over: it returned, the process exited, or
\* the browser took over.
MainEnds ==
    /\ pc = "main"
    /\ pc' = "idle"
    /\ mainRun' = NotRun
    /\ lastLoad' = NotLoaded
    /\ lastValid' = NotChecked
    /\ UNCHANGED <<cacheDir, handler, savers, login, lastLog, lastParse, lastExport, lastConfig, args, sessionDuration, requests, responses, outcome,
                   file, saved, lastSave, lastPrepare>>

(***************************************************************************)
(* Specification                                                           *)
(***************************************************************************)
\* ---------------------------------------------------------------------
\* prepareRoleWithSAML

\* A second role of the first account, and a second provider for Foobar.
RoleAdmin ==
    Role("Admin", "arn:aws:iam::987654321:role/Admin",
         "arn:aws:iam::987654321:saml-provider/GSuite", NoValue)

RoleFoobarOkta ==
    Role("Foobar", "arn:aws:iam::123456789:role/Foobar",
         "arn:aws:iam::123456789:saml-provider/Okta", NoValue)

ParsedRoles == {RoleFoobar, RoleFoobarOkta, RoleAdmin}

\* The role ARNs of the model in the order `<` gives them as strings.
ArnOrder ==
    << "arn:aws-cn:iam::123456789012:role/Foobar",
       "arn:aws-us-gov:iam:us-gov-west-1:123456789012:role/Foobar",
       "arn:aws:iam::123456789:role/Foobar",
       "arn:aws:iam::123456789:role/Missing",
       "arn:aws:iam::987654321:role/Admin",
       "arn:aws:iam::987654321:role/Foobiz" >>

\* Variant: the comparator orders descending.
ArnLess_Descending(a, b) ==
    \E i, j \in 1..Len(ArnOrder) : ArnOrder[i] = a /\ ArnOrder[j] = b /\ i > j

\* a.roleArn < b.roleArn
ArnLess(a, b) ==
    \E i, j \in 1..Len(ArnOrder) : ArnOrder[i] = a /\ ArnOrder[j] = b /\ i < j

\* Array.prototype.sort with the comparator on roleArn: stable, ascending.
RECURSIVE InsertRole(_, _)
InsertRole(sorted, role) ==
    IF sorted = <<>> THEN <<role>>
    ELSE IF ArnLess(role.roleArn, sorted[Len(sorted)].roleArn)
         THEN Append(InsertRole(SubSeq(sorted, 1, Len(sorted) - 1), role), sorted[Len(sorted)])
         ELSE Append(sorted, role)

RECURSIVE SortByRoleArn(_)
SortByRoleArn(roles) ==
    IF roles = <<>> THEN <<>>
    ELSE InsertRole(SortByRoleArn(SubSeq(roles, 1, Len(roles) - 1)), roles[Len(roles)])

\* String.prototype.toLowerCase on the role ARNs of the model.
ToLowerCase(arn) ==
    CASE arn = "arn:aws:iam::123456789:role/Foobar" -> "arn:aws:iam::123456789:role/foobar"
      [] arn = "arn:aws:iam::123456789:role/Foo" -> "arn:aws:iam::123456789:role/foo"
      [] arn = "arn:aws:iam::123456789:role/Missing" -> "arn:aws:iam::123456789:role/missing"
      [] arn = "arn:aws:iam::987654321:role/Admin" -> "arn:aws:iam::987654321:role/admin"
      [] arn = "arn:aws:iam::987654321:role/Foobiz" -> "arn:aws:iam::987654321:role/foobiz"
      [] OTHER -> arn

\* Variant: the ARNs are compared without regard to letter case.
FindRole_IgnoreCase(roles, customRoleArn) ==
    IF \E i \in 1..Len(roles) : ToLowerCase(roles[i].roleArn) = ToLowerCase(customRoleArn)
    THEN CHOOSE i \in 1..Len(roles) :
            /\ ToLowerCase(roles[i].roleArn) = ToLowerCase(customRoleArn)
            /\ \A j \in 1..(i - 1) :
                  ToLowerCase(roles[j].roleArn) # ToLowerCase(customRoleArn)
    ELSE 0

\* roles.find(role => role.roleArn === customRoleArn): the index of the first
\* such role, 0 for undefined.
FindRole(roles, customRoleArn) ==
    IF \E i \in 1..Len(roles) : roles[i].roleArn = customRoleArn
    THEN CHOOSE i \in 1..Len(roles) :
            /\ roles[i].roleArn = customRoleArn
            /\ \A j \in 1..(i - 1) : roles[j].roleArn # customRoleArn
    ELSE 0

\* Variant: the first of several roles is picked when none is asked for.
AutoSelect_FirstOfMany(roles) ==
    IF Len(roles) >= 1
    THEN [isNull |-> FALSE, role |-> roles[1]]
    ELSE [isNull |-> TRUE, role |-> Role("", "", "", NoValue)]

\* roles.length === 1 ? roles[0] : null
AutoSelect(roles) ==
    IF Len(roles) = 1
    THEN [isNull |-> FALSE, role |-> roles[1]]
    ELSE [isNull |-> TRUE, role |-> Role("", "", "", NoValue)]

\* Variant: the error carries no roles.
RoleNotFoundError_NoRoles(roles) ==
    [error |-> Err("RoleNotFoundError", "", <<Word("Custom role not found")>>),
     roles |-> <<>>]

\* new RoleNotFoundError(roles)
RoleNotFoundError(roles) ==
    [error |-> Err("RoleNotFoundError", "", <<Word("Custom role not found")>>),
     roles |-> roles]

\* prepareRoleWithSAML(samlResponse, customRoleArn), from the roles and the
\* assertion that the parser returns for the response.
PrepareRoleWithSAML(parsed, samlAssertion, customRoleArn) ==
    /\ pc = "idle"
    /\ \E roles \in {SortByRoleArn(parsed)} :
        \E found \in {FindRole(roles, customRoleArn)} :
        lastPrepare' =
            IF ~TruthyStr(customRoleArn) THEN
                [NotPrepared EXCEPT !.called = TRUE, !.roles = parsed,
                    !.customRoleArn = customRoleArn, !.kind = "returned",
                    !.roleIsNull = AutoSelect(roles).isNull,
                    !.roleToAssume = AutoSelect(roles).role,
                    !.availableRoles = roles, !.samlAssertion = samlAssertion]
            ELSE IF found = 0 THEN
                [NotPrepared EXCEPT !.called = TRUE, !.roles = parsed,
                    !.customRoleArn = customRoleArn, !.kind = "threw",
                    !.error = RoleNotFoundError(roles).error,
                    !.errorRoles = RoleNotFoundError(roles).roles]
            ELSE
                [NotPrepared EXCEPT !.called = TRUE, !.roles = parsed,
                    !.customRoleArn = customRoleArn, !.kind = "returned",
                    !.roleIsNull = FALSE, !.roleToAssume = roles[found],
                    !.availableRoles = roles, !.samlAssertion = samlAssertion]
    /\ UNCHANGED <<cacheDir, handler, savers, login, lastLog, lastParse, lastExport, lastConfig, pc, args, sessionDuration, requests, responses, outcome,
                   file, saved, lastLoad, lastValid, lastSave, mainRun>>

(***************************************************************************)
(* The credentials file as the earlier revision of the manager wrote and   *)
(* exported it, and as a user edits it.                                    *)
(***************************************************************************)
\* The section names of an ini text in the order they first appear.
RECURSIVE SectionNames(_)
SectionNames(text) ==
    IF text = <<>> THEN <<>>
    ELSE LET front == SectionNames(SubSeq(text, 1, Len(text) - 1))
             line == text[Len(text)]
         IN  IF line.kind = "section" /\ ~\E i \in 1..Len(front) : front[i] = line.k
             THEN Append(front, line.k)
             ELSE front

\* "key=value" lines for the keys of a section, in the order both revisions
\* assign them.
RECURSIVE PairsOf(_, _)
PairsOf(section, keys) ==
    IF keys = <<>> THEN <<>>
    ELSE LET front == PairsOf(section, SubSeq(keys, 1, Len(keys) - 1))
             key == keys[Len(keys)]
         IN  IF key \in DOMAIN section
             THEN Append(front, Pair(key, IF section[key] = Undefined THEN "undefined"
                                          ELSE section[key]))
             ELSE front

\* ini.encode(config): every section under its header, in the order of
\* `names`.
RECURSIVE IniEncodeConfig(_, _)
IniEncodeConfig(names, config) ==
    IF names = <<>> THEN <<>>
    ELSE IniEncodeConfig(SubSeq(names, 1, Len(names) - 1), config)
            \o <<Header(names[Len(names)])>>
            \o PairsOf(config[names[Len(names)]], IniKeys)

\* The earlier loadCredentials(path, profile): undefined when the file does
\* not exist, else the section of the profile (undefined when it has none);
\* the whole parsed file when no profile is given.
LegacyLoad(f, profile) ==
    IF ~f.exists THEN [defined |-> FALSE, section |-> <<>>]
    ELSE IF ~TruthyStr(profile) THEN [defined |-> TRUE, section |-> IniParse(f.text)]
    ELSE IF profile \notin DOMAIN IniParse(f.text) THEN [defined |-> FALSE, section |-> <<>>]
    ELSE [defined |-> TRUE, section |-> IniParse(f.text)[profile]]

\* The section the earlier saveCredentials assigns.
LegacySection(c) ==
    [aws_access_key_id |-> c.accessKeyId,
     aws_role_arn |-> c.roleArn,
     aws_secret_access_key |-> c.secretAccessKey,
     aws_session_expiration |-> ToISOString(c.sessionExpiration),
     aws_session_token |-> c.sessionToken]

\* The text the earlier saveCredentials writes: the sections the file has,
\* with the section of the profile replaced or added last.
LegacyText(f, profile, c) ==
    LET before == IF f.exists THEN f.text ELSE <<>>
        names == IF \E i \in 1..Len(SectionNames(before)) : SectionNames(before)[i] = profile
                 THEN SectionNames(before)
                 ELSE Append(SectionNames(before), profile)
        config == [n \in {names[i] : i \in 1..Len(names)} |->
                     IF n = profile THEN LegacySection(c) ELSE IniParse(before)[n]]
    IN  IniEncodeConfig(names, config)

\* What the earlier revision is given to save.
LegacyCredentials ==
    { [accessKeyId |-> c.AccessKeyId, roleArn |-> arn,
       secretAccessKey |-> c.SecretAccessKey, sessionExpiration |-> c.Expiration,
       sessionToken |-> c.SessionToken] : c \in StsCredentials, arn \in RoleArns }

\* The earlier saveCredentials(path, profile, credentials).
SaveCredentialsLegacy(profile, c) ==
    /\ pc = "idle"
    /\ file' = WriteFile(file, LegacyText(file, profile, c))
    /\ saved' = [saved EXCEPT ![profile] = NotSaved]
    /\ lastSave' = NeverSaved
    /\ lastLoad' = NotLoaded
    /\ lastValid' = NotChecked
    /\ mainRun' = NotRun
    /\ lastExport' = NotExported
    /\ UNCHANGED <<cacheDir, handler, savers, login, lastLog, lastParse, lastConfig, pc, args, sessionDuration, requests,
                   responses, outcome, lastPrepare>>

\* The text without the lines of `key` in the section of `profile`.
RECURSIVE DeleteKey(_, _, _)
DeleteKey(text, profile, key) ==
    IF text = <<>> THEN <<>>
    ELSE LET front == DeleteKey(SubSeq(text, 1, Len(text) - 1), profile, key)
             line == text[Len(text)]
             header == GoverningHeader(text, Len(text))
         IN  IF /\ line.kind = "pair"
                /\ line.k = key
                /\ header # 0
                /\ text[header].k = profile
             THEN front
             ELSE Append(front, line)

\* The file is edited: the session expiration is deleted from the section of
\* a profile and the file is written back.
RemoveExpiration(profile) ==
    /\ pc = "idle"
    /\ file.exists
    /\ profile \in DOMAIN IniParse(file.text)
    /\ "aws_session_expiration" \in DOMAIN IniParse(file.text)[profile]
    /\ file' = WriteFile(file, DeleteKey(file.text, profile, "aws_session_expiration"))
    /\ saved' = [saved EXCEPT ![profile] = NotSaved]
    /\ lastSave' = NeverSaved
    /\ lastLoad' = NotLoaded
    /\ lastValid' = NotChecked
    /\ mainRun' = NotRun
    /\ lastExport' = NotExported
    /\ UNCHANGED <<cacheDir, handler, savers, login, lastLog, lastParse, lastConfig, pc, args, sessionDuration, requests,
                   responses, outcome, lastPrepare>>

\* A member of a JSON object: a number or a string under a key.
JsonNumber(k, n) == [k |-> k, isNumber |-> TRUE, n |-> n, s |-> ""]
JsonString(k, s) == [k |-> k, isNumber |-> FALSE, n |-> 0, s |-> s]

\* JSON.stringify(object): the members in order; a member whose value is
\* undefined is left out.
RECURSIVE JsonStringify(_)
JsonStringify(members) ==
    IF members = <<>> THEN <<>>
    ELSE LET front == JsonStringify(SubSeq(members, 1, Len(members) - 1))
             member == members[Len(members)]
         IN  IF ~member.isNumber /\ member.s = Undefined THEN front
             ELSE Append(front, member)

\* Variant: Expiration is filled from the session token.
exportAsJSON_ExpirationFromToken(f, profile) ==
    LET credentials == LegacyLoad(f, profile)
    IN  IF ~credentials.defined THEN JsonStringify(<<JsonNumber("Version", 1)>>)
        ELSE JsonStringify(
                << JsonNumber("Version", 1),
                   JsonString("AccessKeyId", Get(credentials.section, "aws_access_key_id")),
                   JsonString("SecretAccessKey",
                              Get(credentials.section, "aws_secret_access_key")),
                   JsonString("SessionToken", Get(credentials.section, "aws_session_token")),
                   JsonString("Expiration", Get(credentials.section, "aws_session_token")) >>)

\* The earlier exportAsJSON(path, profile).
exportAsJSON(f, profile) ==
    LET credentials == LegacyLoad(f, profile)
    IN  IF ~credentials.defined THEN JsonStringify(<<JsonNumber("Version", 1)>>)
        ELSE JsonStringify(
                << JsonNumber("Version", 1),
                   JsonString("AccessKeyId", Get(credentials.section, "aws_access_key_id")),
                   JsonString("SecretAccessKey",
                              Get(credentials.section, "aws_secret_access_key")),
                   JsonString("SessionToken", Get(credentials.section, "aws_session_token")),
                   JsonString("Expiration",
                              Get(credentials.section, "aws_session_expiration")) >>)

ExportAsJSON(profile) ==
    /\ pc = "idle"
    /\ lastExport' = [called |-> TRUE, profile |-> profile, json |-> exportAsJSON(file, profile)]
    /\ lastLoad' = NotLoaded
    /\ lastValid' = NotChecked
    /\ UNCHANGED <<cacheDir, handler, savers, login, lastLog, lastParse, lastConfig, pc, args, sessionDuration, requests,
                   responses, outcome, file, saved, lastSave, mainRun, lastPrepare>>

(***************************************************************************)
(* saveCredentials step by step, for invocations that run at the same      *)
(* time on one credentials file.                                           *)
(***************************************************************************)
\* How many invocations save at the same time.
MaxSavers == 2

\* An invocation that saves: the revision of saveCredentials it runs, the
\* profile, what it was given, the text it writes once that is encoded, the
\* await it has reached, and its place among the writes (0 before its own).
Saver(revision, profile, given, text, stage) ==
    [revision |-> revision, profile |-> profile, given |-> given, text |-> text,
     stage |-> stage, order |-> 0]

\* The invocations run one revision of the tool, and the file they find was
\* written by that revision: only the later one writes the SAML assertion.
SameRevision(revision) ==
    /\ \A i \in 1..Len(savers) : savers[i].revision = revision
    /\ (savers = NoSavers /\ file.exists) =>
          ((revision = "session") <=>
              \E i \in 1..Len(file.text) : file.text[i].k = "aws_saml_assertion")

\* The content after `text` is written at offset 0 of a file opened for
\* writing: what the file held beyond the end of `text` stays.
Overwrite(old, text) ==
    text \o SubSeq(old, Len(text) + 1, Len(old))

\* How many invocations have written.
Writes ==
    Cardinality({i \in 1..Len(savers) : savers[i].order > 0})

\* saveCredentials(profile, session) up to `await mkdir`: the section is
\* encoded from the session.
SaveBegins(profile, session) ==
    /\ pc = "idle"
    /\ cacheDir
    /\ Len(savers) < MaxSavers
    /\ SameRevision("session")
    /\ savers' = Append(savers, Saver("session", profile, toIni(session),
                                      IniEncode(profile, toIni(session)), "encoded"))
    /\ UNCHANGED <<cacheDir, handler, login, lastLog, lastParse, lastExport, lastConfig, pc,
                   args, sessionDuration, requests, responses, outcome, file, saved,
                   lastLoad, lastValid, lastSave, mainRun, lastPrepare>>

\* The earlier saveCredentials(path, profile, credentials) is called.
SaveBeginsLegacy(profile, c) ==
    /\ pc = "idle"
    /\ cacheDir
    /\ Len(savers) < MaxSavers
    /\ SameRevision("legacy")
    /\ savers' = Append(savers, Saver("legacy", profile, LegacySection(c), <<>>, "called"))
    /\ UNCHANGED <<cacheDir, handler, login, lastLog, lastParse, lastExport, lastConfig, pc,
                   args, sessionDuration, requests, responses, outcome, file, saved,
                   lastLoad, lastValid, lastSave, mainRun, lastPrepare>>

\* The earlier saveCredentials reads the file and encodes its sections with
\* the section of the profile replaced or added.
SaverReads(i) ==
    /\ i \in 1..Len(savers)
    /\ savers[i].stage = "called"
    /\ LET before == IF file.exists THEN file.text ELSE <<>>
           names == IF \E k \in 1..Len(SectionNames(before)) :
                           SectionNames(before)[k] = savers[i].profile
                    THEN SectionNames(before)
                    ELSE Append(SectionNames(before), savers[i].profile)
           config == [n \in {names[k] : k \in 1..Len(names)} |->
                        IF n = savers[i].profile THEN savers[i].given
                        ELSE IniParse(before)[n]]
       IN  savers' = [savers EXCEPT ![i].text = IniEncodeConfig(names, config),
                                    ![i].stage = "encoded"]
    /\ UNCHANGED <<cacheDir, handler, login, lastLog, lastParse, lastExport, lastConfig, pc,
                   args, sessionDuration, requests, responses, outcome, file, saved,
                   lastLoad, lastValid, lastSave, mainRun, lastPrepare>>

\* writeFile opens the file for writing: the file is created or emptied.
SaverOpens(i) ==
    /\ i \in 1..Len(savers)
    /\ savers[i].stage = "encoded"
    /\ file' = WriteFile(file, <<>>)
    /\ savers' = [savers EXCEPT ![i].stage = "opened"]
    /\ UNCHANGED <<cacheDir, handler, login, lastLog, lastParse, lastExport, lastConfig, pc,
                   args, sessionDuration, requests, responses, outcome, saved,
                   lastLoad, lastValid, lastSave, mainRun, lastPrepare>>

\* writeFile writes the text from the start of the file it opened.  The
\* earlier revision is done with that; the later one goes on to chmod.
SaverWrites(i) ==
    /\ i \in 1..Len(savers)
    /\ savers[i].stage = "opened"
    /\ file' = [file EXCEPT !.text = Overwrite(file.text, savers[i].text)]
    /\ savers' = [savers EXCEPT ![i].order = Writes + 1,
                                ![i].stage = IF savers[i].revision = "legacy"
                                             THEN "done" ELSE "written"]
    /\ UNCHANGED <<cacheDir, handler, login, lastLog, lastParse, lastExport, lastConfig, pc,
                   args, sessionDuration, requests, responses, outcome, saved,
                   lastLoad, lastValid, lastSave, mainRun, lastPrepare>>

\* chmod(this.credentialsFile, 0o600)
SaverChmods(i) ==
    /\ i \in 1..Len(savers)
    /\ savers[i].stage = "written"
    /\ file' = Chmod(file, "0600")
    /\ savers' = [savers EXCEPT ![i].stage = "done"]
    /\ UNCHANGED <<cacheDir, handler, login, lastLog, lastParse, lastExport, lastConfig, pc,
                   args, sessionDuration, requests, responses, outcome, saved,
                   lastLoad, lastValid, lastSave, mainRun, lastPrepare>>

\* The invocations have ended; the file stays as they left it.
SaversEnd ==
    /\ savers # NoSavers
    /\ \A i \in 1..Len(savers) : savers[i].stage = "done"
    /\ savers' = NoSavers
    /\ UNCHANGED <<cacheDir, handler, login, lastLog, lastParse, lastExport, lastConfig, pc,
                   args, sessionDuration, requests, responses, outcome, file, saved,
                   lastLoad, lastValid, lastSave, mainRun, lastPrepare>>

(***************************************************************************)
(* The SSO navigation of the main routine and the headful instance.        *)
(***************************************************************************)
\* How many instances of the tool one invocation is followed through.
MaxInstances == 3

\* What argv.headful can be for the arguments of an instance: true with
\* --headful, false without; with both --headful and --no-headful the value
\* is the argument parser's choice.
HeadfulValues(arguments) ==
    LET has(flag) == \E i \in 1..Len(arguments) : arguments[i] = flag
    IN  IF has("--headful") /\ has("--no-headful") THEN BOOLEAN
        ELSE {has("--headful")}

\* An instance of the tool: its arguments, argv.headful, isAuthenticated,
\* where it stands, the URL the navigation ended on, the instance that
\* spawned it (0 for the user's) with that instance's isAuthenticated and
\* URL at the time, and how many instances it has spawned.
Instance(arguments, headful, parent, parentAuthenticated, parentUrl) ==
    [arguments |-> arguments, headful |-> headful, isAuthenticated |-> FALSE,
     stage |-> "started", url |-> "", parent |-> parent,
     parentAuthenticated |-> parentAuthenticated, parentUrl |-> parentUrl,
     spawned |-> 0]

\* Variant: an unauthenticated run on the login page spawns an instance
\* whether or not it is headful itself.
ShouldSpawn_AlsoHeadful(url, isAuthenticated, headful) ==
    url = "ServiceLogin" /\ ~isAuthenticated

\* /ServiceLogin/.test(ssoPage.url()) && !isAuthenticated && !argv.headful
ShouldSpawn(url, isAuthenticated, headful) ==
    url = "ServiceLogin" /\ ~isAuthenticated /\ ~headful

\* The user invokes the tool.
Invoke(userArgs) ==
    /\ ~login.invoked
    /\ \E h \in HeadfulValues(userArgs) :
          login' = [invoked |-> TRUE, userArgs |-> userArgs,
                    runs |-> <<Instance(userArgs, h, 0, FALSE, "")>>]
    /\ UNCHANGED <<cacheDir, handler, savers, lastLog, lastParse, lastExport, lastConfig, pc,
                   args, sessionDuration, requests, responses, outcome, file, saved,
                   lastLoad, lastValid, lastSave, mainRun, lastPrepare>>

\* A non-headful instance finds a valid session in the credentials file:
\* isAuthenticated is set and the main routine returns.
CachedSession(i) ==
    /\ i \in 1..Len(login.runs)
    /\ login.runs[i].stage = "started"
    /\ ~login.runs[i].headful
    /\ login' = [login EXCEPT !.runs[i].isAuthenticated = TRUE, !.runs[i].stage = "ended"]
    /\ UNCHANGED <<cacheDir, handler, savers, lastLog, lastParse, lastExport, lastConfig, pc,
                   args, sessionDuration, requests, responses, outcome, file, saved,
                   lastLoad, lastValid, lastSave, mainRun, lastPrepare>>

\* The route handler of an instance intercepts the SAML request while the
\* navigation is under way.
Intercepts(i) ==
    /\ i \in 1..Len(login.runs)
    /\ login.runs[i].stage = "started"
    /\ ~login.runs[i].isAuthenticated
    /\ login' = [login EXCEPT !.runs[i].isAuthenticated = TRUE]
    /\ UNCHANGED <<cacheDir, handler, savers, lastLog, lastParse, lastExport, lastConfig, pc,
                   args, sessionDuration, requests, responses, outcome, file, saved,
                   lastLoad, lastValid, lastSave, mainRun, lastPrepare>>

\* page.goto(SAML_URL) resolves on `url`; an instance is spawned with
\* --headful ahead of this instance's own arguments when ShouldSpawn says so.
Navigates(i, url) ==
    /\ i \in 1..Len(login.runs)
    /\ login.runs[i].stage = "started"
    /\ LET run == login.runs[i]
           arguments == <<"--headful">> \o run.arguments
           ended == [login EXCEPT !.runs[i].stage = "ended", !.runs[i].url = url]
       IN  IF ShouldSpawn(url, run.isAuthenticated, run.headful)
           THEN /\ Len(login.runs) < MaxInstances
                /\ \E h \in HeadfulValues(arguments) :
                      login' = [ended EXCEPT
                                  !.runs = Append([ended.runs EXCEPT ![i].spawned = run.spawned + 1],
                                                  Instance(arguments, h, i, run.isAuthenticated, url))]
           ELSE login' = ended
    /\ UNCHANGED <<cacheDir, handler, savers, lastLog, lastParse, lastExport, lastConfig, pc,
                   args, sessionDuration, requests, responses, outcome, file, saved,
                   lastLoad, lastValid, lastSave, mainRun, lastPrepare>>

\* page.goto(SAML_URL) rejects: the catch block returns.
NavigationFails(i) ==
    /\ i \in 1..Len(login.runs)
    /\ login.runs[i].stage = "started"
    /\ login' = [login EXCEPT !.runs[i].stage = "ended", !.runs[i].url = "failed"]
    /\ UNCHANGED <<cacheDir, handler, savers, lastLog, lastParse, lastExport, lastConfig, pc,
                   args, sessionDuration, requests, responses, outcome, file, saved,
                   lastLoad, lastValid, lastSave, mainRun, lastPrepare>>

\* All instances of the invocation have ended.
InvocationEnds ==
    /\ login.invoked
    /\ \A i \in 1..Len(login.runs) : login.runs[i].stage = "ended"
    /\ login' = NotNavigated
    /\ UNCHANGED <<cacheDir, handler, savers, lastLog, lastParse, lastExport, lastConfig, pc,
                   args, sessionDuration, requests, responses, outcome, file, saved,
                   lastLoad, lastValid, lastSave, mainRun, lastPrepare>>

(***************************************************************************)
(* Logger and the calls the credentials manager makes of it.               *)
(***************************************************************************)
\* The highest count of --verbose that is followed.
MaxVerbosity == 3

\* A call of a Logger method: the line of the call in the credentials
\* manager, the method, and the secrets among its arguments.
LogCall(line, level, secrets) == [line |-> line, level |-> level, secrets |-> secrets]

\* The calls prepareRoleWithSAML, assumeRoleWithSAML, saveCredentials and
\* loadCredentials make.  The STS response holds the credentials; `contents`
\* is the encoded section of the session.
LogCalls ==
    { LogCall(44, "debug", {}),
      LogCall(59, "debug", {}),
      LogCall(100, "warn", {}),
      LogCall(112, "debug", {"accessKeyId", "secretAccessKey", "sessionToken"}),
      LogCall(142, "info", {"accessKeyId", "secretAccessKey", "sessionToken", "samlAssertion"}),
      LogCall(157, "debug", {}),
      LogCall(165, "debug", {}),
      LogCall(178, "warn", {}) }

\* Whether Logger.debug, info, warn, error or succeed goes on to Logger.log.
Emits(level, verbosity, isTTY) ==
    CASE level = "debug" -> isTTY /\ verbosity >= 2
      [] level = "info" -> verbosity >= 1
      [] level = "succeed" -> isTTY
      [] OTHER -> TRUE

\* A call of the logger constructed with `verbosity` and `isTTY`.
\* Logger.log writes to the stream without a terminal and to the spinner
\* with one.  saveCredentials reaches its call only with a credentials file.
Log(call, verbosity, isTTY) ==
    /\ pc = "idle"
    /\ call.line = 142 => cacheDir
    /\ lastLog' = [called |-> TRUE, line |-> call.line, level |-> call.level,
                   secrets |-> call.secrets, verbosity |-> verbosity, isTTY |-> isTTY,
                   emitted |-> Emits(call.level, verbosity, isTTY),
                   target |-> IF ~Emits(call.level, verbosity, isTTY) THEN ""
                              ELSE IF isTTY THEN "ora" ELSE "stream"]
    /\ UNCHANGED <<cacheDir, handler, savers, login, lastParse, lastExport, lastConfig, pc,
                   args, sessionDuration, requests, responses, outcome, file, saved,
                   lastLoad, lastValid, lastSave, mainRun, lastPrepare>>

(***************************************************************************)
(* The route handler of the main routine.                                  *)
(***************************************************************************)
\* The handler awaits prepareRoleWithSAML on the body of the intercepted
\* request to https://signin.aws.amazon.com/saml.
RoutePrepare(parsed, samlAssertion, customRoleArn) ==
    /\ handler.stage = "none"
    /\ ~lastPrepare.called
    /\ PrepareRoleWithSAML(parsed, samlAssertion, customRoleArn)

\* Variant: a null role is passed on to the token exchange.
ThrowsOnRole_NullTolerated(roleIsNull) == FALSE

\* Reading a property of the role throws a TypeError when the role is null
\* (`roleToAssume.roleArn` in the template literal, `role.sessionDuration` in
\* assumeRoleWithSAML).
ThrowsOnRole(roleIsNull) == roleIsNull

\* route.abort() in the handler's run.
Aborted(h, kind) ==
    [h EXCEPT !.stage = "settled", !.kind = kind, !.aborted = h.aborted + 1]

\* formatOutput(session, argv.output) after the login: the session is written
\* when the format is 'json'; toJSON of an undefined session throws.
Printed(h, result) ==
    [h EXCEPT !.stage = "settled", !.printed = (h.output = "json" /\ result.defined)]

\* From the settling of prepareRoleWithSAML to the call of
\* assumeRoleWithSAML: the catch block for RoleNotFoundError, the prompt for a
\* role when several are available and none was asked for (`answer` is the
\* chosen place in the list, 0 when the prompt is cancelled), and the
\* non-interactive branch.
RouteSelect(isTTY, answer, output) ==
    /\ handler.stage = "none"
    /\ lastPrepare.called
    /\ pc = "idle"
    /\ answer \in 0..Len(lastPrepare.availableRoles)
    /\ LET h == [handler EXCEPT !.isTTY = isTTY, !.output = output,
                                !.customRoleArn = lastPrepare.customRoleArn,
                                !.availableRoles = lastPrepare.availableRoles,
                                !.roleIsNull = lastPrepare.roleIsNull,
                                !.roleToAssume = lastPrepare.roleToAssume,
                                !.samlAssertion = lastPrepare.samlAssertion,
                                !.fileBefore = file]
           calling(role) == [h EXCEPT !.stage = "calling", !.roleIsNull = FALSE,
                                      !.roleToAssume = role]
       IN  handler' =
               IF lastPrepare.kind = "threw" THEN Aborted(h, "RoleNotFoundError")
               ELSE IF h.roleIsNull /\ Len(h.availableRoles) > 1 THEN
                   IF isTTY THEN
                       IF answer = 0 THEN Aborted(h, "cancelled")
                       ELSE calling(h.availableRoles[answer])
                   ELSE IF ThrowsOnRole(h.roleIsNull) THEN Aborted(h, "TypeError")
                   ELSE [h EXCEPT !.stage = "calling"]
               ELSE IF ThrowsOnRole(h.roleIsNull) THEN Aborted(h, "TypeError")
               ELSE [h EXCEPT !.stage = "calling"]
    /\ UNCHANGED <<cacheDir, savers, login, lastLog, lastParse, lastExport, lastConfig, pc,
                   args, sessionDuration, requests, responses, outcome, file, saved,
                   lastLoad, lastValid, lastSave, mainRun, lastPrepare>>

\* The handler calls assumeRoleWithSAML with the role that was chosen.
RouteAssume(profile, customSessionDuration) ==
    /\ handler.stage = "calling"
    /\ Call(handler.samlAssertion, handler.roleToAssume, profile, customSessionDuration)

\* assumeRoleWithSAML has settled.  When it threw, the catch block aborts the
\* request.  When it returned, the request is continued; with several
\* available roles the handler then waits for the account selection form,
\* otherwise it prints the session.
RouteResumes ==
    /\ handler.stage = "calling"
    /\ pc = "done"
    /\ handler' =
          IF outcome.kind = "threw"
          THEN Aborted([handler EXCEPT !.result = outcome], outcome.error.name)
          ELSE LET h == [handler EXCEPT !.result = outcome, !.continued = handler.continued + 1]
               IN  IF Len(h.availableRoles) > 1 THEN [h EXCEPT !.stage = "waiting"]
                   ELSE Printed(h, outcome)
    /\ UNCHANGED <<cacheDir, savers, login, lastLog, lastParse, lastExport, lastConfig, pc,
                   args, sessionDuration, requests, responses, outcome, file, saved,
                   lastLoad, lastValid, lastSave, mainRun, lastPrepare>>

\* page.waitForSelector('#saml_form') and context.close() resolve.
WaitResolves ==
    /\ handler.stage = "waiting"
    /\ handler' = Printed(handler, handler.result)
    /\ UNCHANGED <<cacheDir, savers, login, lastLog, lastParse, lastExport, lastConfig, pc,
                   args, sessionDuration, requests, responses, outcome, file, saved,
                   lastLoad, lastValid, lastSave, mainRun, lastPrepare>>

\* page.waitForSelector('#saml_form') or context.close() rejects (the context
\* was closed meanwhile): the catch block aborts the request.
WaitRejects ==
    /\ handler.stage = "waiting"
    /\ handler' = Aborted(handler, "Error")
    /\ UNCHANGED <<cacheDir, savers, login, lastLog, lastParse, lastExport, lastConfig, pc,
                   args, sessionDuration, requests, responses, outcome, file, saved,
                   lastLoad, lastValid, lastSave, mainRun, lastPrepare>>

\* A request to another URL: continued when the URL is one of the identity
\* provider's, aborted with 'blockedbyclient' otherwise.
RouteOther(allowed) ==
    /\ handler.stage = "none"
    /\ ~lastPrepare.called
    /\ pc = "idle"
    /\ handler' = IF allowed
                  THEN [handler EXCEPT !.stage = "settled", !.kind = "allowed",
                                       !.continued = handler.continued + 1]
                  ELSE Aborted(handler, "blockedbyclient")
    /\ UNCHANGED <<cacheDir, savers, login, lastLog, lastParse, lastExport, lastConfig, pc,
                   args, sessionDuration, requests, responses, outcome, file, saved,
                   lastLoad, lastValid, lastSave, mainRun, lastPrepare>>

\* The handler's run is over and the assumeRoleWithSAML call, if any, has
\* handed back its result; the next request can be intercepted.
RouteEnds ==
    /\ handler.stage = "settled"
    /\ pc = "idle"
    /\ handler' = NotHandled
    /\ lastPrepare' = NotPrepared
    /\ UNCHANGED <<cacheDir, savers, login, lastLog, lastParse, lastExport, lastConfig, pc,
                   args, sessionDuration, requests, responses, outcome, file, saved,
                   lastLoad, lastValid, lastSave, mainRun>>

(***************************************************************************)
(* The parser of the SAML response.                                        *)
(***************************************************************************)
\* One comma-separated piece of a Role attribute value: its text and, when it
\* is written as an ARN, the segments between its colons and around the slash.
ArnPart(text, partition, region, account, resource, name) ==
    [text |-> text, isArn |-> TRUE, partition |-> partition, region |-> region,
     account |-> account, resource |-> resource, name |-> name]

TextPart(text) ==
    [text |-> text, isArn |-> FALSE, partition |-> "", region |-> "",
     account |-> "", resource |-> "", name |-> ""]

\* The account segments that [0-9]+ matches.
DecimalStrings == {"123456789", "987654321", "123456789012"}

\* REGEX_PATTERN_ROLE on one piece.
MatchesRolePattern(part) ==
    /\ part.isArn
    /\ part.partition \in {"aws", "aws-us-gov", "aws-cn"}
    /\ part.account \in DecimalStrings
    /\ part.resource = "role"
    /\ part.name # ""

\* REGEX_PATTERN_PRINCIPAL on one piece.
MatchesPrincipalPattern(part) ==
    /\ part.isArn
    /\ part.partition = "aws"
    /\ part.account \in DecimalStrings
    /\ part.resource = "saml-provider"
    /\ part.name # ""

\* attribute.match(pattern): the leftmost piece the pattern matches, 0 for
\* null.
MatchRole(attribute) ==
    IF \E i \in 1..Len(attribute) : MatchesRolePattern(attribute[i])
    THEN CHOOSE i \in 1..Len(attribute) :
            /\ MatchesRolePattern(attribute[i])
            /\ \A j \in 1..(i - 1) : ~MatchesRolePattern(attribute[j])
    ELSE 0

MatchPrincipal(attribute) ==
    IF \E i \in 1..Len(attribute) : MatchesPrincipalPattern(attribute[i])
    THEN CHOOSE i \in 1..Len(attribute) :
            /\ MatchesPrincipalPattern(attribute[i])
            /\ \A j \in 1..(i - 1) : ~MatchesPrincipalPattern(attribute[j])
    ELSE 0

\* Variant: a value is skipped only when neither pattern matches.
SkipValue_WhenBothFail(principalMatches, roleMatches) ==
    principalMatches = 0 /\ roleMatches = 0

\* !principalMatches || !roleMatches
SkipValue(principalMatches, roleMatches) ==
    principalMatches = 0 \/ roleMatches = 0

\* The roles pushed for the values of the Role attribute, in their order.
RECURSIVE ParseRoles(_, _)
ParseRoles(attributes, idpSessionDuration) ==
    IF attributes = <<>> THEN <<>>
    ELSE LET front == ParseRoles(SubSeq(attributes, 1, Len(attributes) - 1),
                                 idpSessionDuration)
             attribute == attributes[Len(attributes)]
             principalMatches == MatchPrincipal(attribute)
             roleMatches == MatchRole(attribute)
         IN  IF SkipValue(principalMatches, roleMatches) THEN front
             ELSE Append(front,
                     Role(IF roleMatches = 0 THEN "" ELSE attribute[roleMatches].name,
                          IF roleMatches = 0 THEN "" ELSE attribute[roleMatches].text,
                          IF principalMatches = 0 THEN ""
                          ELSE attribute[principalMatches].text,
                          idpSessionDuration))

\* The first value of the SessionDuration attribute as a number; undefined
\* when the attribute has no value.
IdpSessionDuration(values) ==
    IF values = <<>> THEN NoValue ELSE Number(values[1])

\* Role attribute values: Foobar as the tests write it, Admin with the
\* principal first, the GovCloud value of the tests (role of aws-us-gov,
\* provider of aws), values wholly of aws-us-gov and of aws-cn, a role with no
\* provider, a role with no account, and text that holds no ARN.
PartFoobar ==
    ArnPart("arn:aws:iam::123456789:role/Foobar", "aws", "", "123456789", "role", "Foobar")

PartGSuite ==
    ArnPart("arn:aws:iam::123456789:saml-provider/GSuite", "aws", "", "123456789",
            "saml-provider", "GSuite")

PartAdmin ==
    ArnPart("arn:aws:iam::987654321:role/Admin", "aws", "", "987654321", "role", "Admin")

PartAdminGSuite ==
    ArnPart("arn:aws:iam::987654321:saml-provider/GSuite", "aws", "", "987654321",
            "saml-provider", "GSuite")

PartGovFoobar ==
    ArnPart("arn:aws-us-gov:iam:us-gov-west-1:123456789012:role/Foobar", "aws-us-gov",
            "us-gov-west-1", "123456789012", "role", "Foobar")

PartGovGSuite ==
    ArnPart("arn:aws-us-gov:iam::123456789012:saml-provider/GSuite", "aws-us-gov", "",
            "123456789012", "saml-provider", "GSuite")

PartCnFoobar ==
    ArnPart("arn:aws-cn:iam::123456789012:role/Foobar", "aws-cn", "", "123456789012",
            "role", "Foobar")

PartCnGSuite ==
    ArnPart("arn:aws-cn:iam::123456789012:saml-provider/GSuite", "aws-cn", "",
            "123456789012", "saml-provider", "GSuite")

PartNoAccount ==
    ArnPart("arn:aws:iam:::role/Foobiz", "aws", "", "", "role", "Foobiz")

AttrFoobar == <<PartFoobar, PartGSuite>>
AttrAdminReversed == <<PartAdminGSuite, PartAdmin>>
AttrGovCloudTest == <<PartGovFoobar, PartGSuite>>
AttrGovCloud == <<PartGovFoobar, PartGovGSuite>>
AttrChina == <<PartCnGSuite, PartCnFoobar>>
AttrRoleOnly == <<PartFoobar>>
AttrNoAccount == <<PartNoAccount, PartGSuite>>
AttrNotArn == <<TextPart("not-an-arn")>>

AttributeValues ==
    {AttrFoobar, AttrAdminReversed, AttrGovCloudTest, AttrGovCloud, AttrChina,
     AttrRoleOnly, AttrNoAccount, AttrNotArn}

MaxAttrs == 2

RoleAttributes == UNION { [1..n -> AttributeValues] : n \in 0..MaxAttrs }

\* The SessionDuration attribute: absent, or "3600".
SessionDurationAttributes == {<<>>, << <<3, 6, 0, 0>> >>}

\* parseSamlResponse(response), from the Role and SessionDuration attributes
\* of the assertion in the response.
ParseSamlResponse(attributes, duration) ==
    /\ pc = "idle"
    /\ lastParse' = [called |-> TRUE, attributes |-> attributes,
                     duration |-> IdpSessionDuration(duration),
                     roles |-> ParseRoles(attributes, IdpSessionDuration(duration))]
    /\ lastPrepare' = NotPrepared
    /\ UNCHANGED <<cacheDir, handler, savers, login, lastLog, lastExport, lastConfig, pc, args, sessionDuration, requests,
                   responses, outcome, file, saved, lastLoad, lastValid, lastSave, mainRun>>

\* prepareRoleWithSAML on the response that was parsed last.
PrepareParsed(samlAssertion, customRoleArn) ==
    /\ lastParse.called
    /\ ~lastPrepare.called
    /\ PrepareRoleWithSAML(lastParse.roles, samlAssertion, customRoleArn)

(***************************************************************************)
(* The argument middleware: command line, environment and aws cli config.  *)
(***************************************************************************)
\* JavaScript values of the kinds argv, the environment and the config file
\* hold.
Undef == [t |-> "undefined", s |-> "", n |-> 0, b |-> FALSE]
Str(s) == [t |-> "string", s |-> s, n |-> 0, b |-> FALSE]
Num(n) == [t |-> "number", s |-> "", n |-> n, b |-> FALSE]
Bool(b) == [t |-> "boolean", s |-> "", n |-> 0, b |-> b]
NaN == [t |-> "nan", s |-> "", n |-> 0, b |-> FALSE]

\* A value used as a condition.
ToBoolean(v) ==
    CASE v.t = "string" -> v.s # ""
      [] v.t = "number" -> v.n # 0
      [] v.t = "boolean" -> v.b
      [] OTHER -> FALSE

\* a === b
StrictEquals(a, b) == a.t # "nan" /\ a = b

\* a || b
Or(a, b) == IF ToBoolean(a) THEN a ELSE b

\* Number(value)
ToNumber(v) ==
    CASE v.t = "number" -> v
      [] v.t = "boolean" -> Num(IF v.b THEN 1 ELSE 0)
      [] v.t = "string" /\ v.s = "" -> Num(0)
      [] v.t = "string" /\ v.s = "900" -> Num(900)
      [] v.t = "string" /\ v.s = "3600" -> Num(3600)
      [] OTHER -> NaN

\* camalize(str) on the parameter names of the model.
camalize(str) ==
    CASE str = "aws-profile" -> "awsProfile"
      [] str = "aws-region" -> "awsRegion"
      [] str = "aws-session-duration" -> "awsSessionDuration"
      [] OTHER -> str

\* The properties of argv that the model follows.
ArgvKeys ==
    {"aws-profile", "awsProfile", "aws-region", "awsRegion", "aws-session-duration",
     "awsSessionDuration", "force", "output"}

\* cliParameters, in the order the object lists them: the profile, the
\* session duration, the region, the output format and --force.
Parameter(key, awsConfigKey, type, default) ==
    [key |-> key, awsConfigKey |-> awsConfigKey, type |-> type, default |-> default]

cliParameters ==
    << Parameter("aws-profile", "", "", Undef),
       Parameter("aws-session-duration", "duration_seconds", "number", Undef),
       Parameter("aws-region", "region", "", Undef),
       Parameter("output", "", "", Undef),
       Parameter("force", "gsts.force", "boolean", Bool(FALSE)) >>

\* argv as yargs hands it to the middleware: every given option under its
\* dashed and its camel-case name, defaults applied.
InitialArgv(given) ==
    [k \in ArgvKeys |->
        CASE k \in {"aws-profile", "awsProfile"} -> given.profile
          [] k \in {"aws-region", "awsRegion"} -> given.region
          [] k \in {"aws-session-duration", "awsSessionDuration"} -> given.duration
          [] k = "force" -> given.force
          [] OTHER -> Undef]

\* awsConfig.configFile[argv.awsProfile]?.[awsConfigKey]
ConfigValue(configFile, profile, awsConfigKey) ==
    IF /\ profile.t = "string"
       /\ profile.s \in DOMAIN configFile
       /\ awsConfigKey \in DOMAIN configFile[profile.s]
    THEN Str(configFile[profile.s][awsConfigKey])
    ELSE Undef

\* The coercion of index.js, which switches on the value itself.
CoerceByValue(value, type) ==
    IF StrictEquals(value, Str("number")) THEN ToNumber(value)
    ELSE IF StrictEquals(value, Str("boolean")) THEN Bool(ToBoolean(value))
    ELSE value

\* The coercion of processConfig, which switches on the type.
CoerceByType(value, type) ==
    IF type = "number" THEN ToNumber(value)
    ELSE IF type = "boolean" THEN Bool(ToBoolean(value))
    ELSE value

\* One turn of the loop over cliParameters: the config file value is
\* assigned to argv[parameterKey], which is then assigned
\* argv[camalize(parameterKey)].
ProcessParameter(argv, parameter, configFile, byType) ==
    IF parameter.awsConfigKey = "" THEN argv
    ELSE IF \/ argv[parameter.key].t = "undefined"
            \/ StrictEquals(argv[parameter.key], parameter.default)
    THEN LET value == ConfigValue(configFile, argv["awsProfile"], parameter.awsConfigKey)
             coerced == IF byType THEN CoerceByType(value, parameter.type)
                        ELSE CoerceByValue(value, parameter.type)
             assigned == [argv EXCEPT ![parameter.key] = coerced]
         IN  [assigned EXCEPT ![parameter.key] = assigned[camalize(parameter.key)]]
    ELSE argv

RECURSIVE ProcessParameters(_, _, _, _)
ProcessParameters(argv, parameters, configFile, byType) ==
    IF parameters = <<>> THEN argv
    ELSE ProcessParameter(
             ProcessParameters(argv, SubSeq(parameters, 1, Len(parameters) - 1),
                               configFile, byType),
             parameters[Len(parameters)], configFile, byType)

\* argv.output == undefined && !isTTY
JsonWhenNotTTY(argv, isTTY) ==
    IF argv["output"].t = "undefined" /\ ~isTTY
    THEN [argv EXCEPT !["output"] = Str("json")]
    ELSE argv

\* The middleware of index.js.
middleware(argv, env, configFile, isTTY) ==
    LET region1 ==
            IF ~ToBoolean(argv["awsRegion"]) /\ ToBoolean(env.AWS_REGION)
            THEN [argv EXCEPT !["awsRegion"] = env.AWS_REGION,
                              !["aws-region"] = env.AWS_REGION]
            ELSE argv
        region2 ==
            IF ~ToBoolean(region1["awsRegion"]) /\ ToBoolean(env.AWS_DEFAULT_REGION)
            THEN [region1 EXCEPT !["awsRegion"] = env.AWS_DEFAULT_REGION,
                                 !["aws-region"] = env.AWS_DEFAULT_REGION]
            ELSE region1
        profile ==
            IF ~ToBoolean(region2["awsProfile"]) /\ ToBoolean(env.AWS_PROFILE)
            THEN [region2 EXCEPT !["awsProfile"] = env.AWS_PROFILE,
                                 !["aws-profile"] = env.AWS_PROFILE]
            ELSE [region2 EXCEPT !["awsProfile"] = Str("default"),
                                 !["aws-profile"] = Str("default")]
    IN  JsonWhenNotTTY(ProcessParameters(profile, cliParameters, configFile, FALSE), isTTY)

\* processConfig(cliParameters, argv, env, isTTY) of the config manager.
processConfig(argv, env, configFile, isTTY) ==
    LET region == Or(Or(argv["aws-region"], env.AWS_REGION), env.AWS_DEFAULT_REGION)
        profile == Or(Or(argv["aws-profile"], env.AWS_PROFILE), Str("default"))
        named == [argv EXCEPT !["awsRegion"] = region, !["aws-region"] = region,
                              !["awsProfile"] = profile, !["aws-profile"] = profile]
    IN  JsonWhenNotTTY(ProcessParameters(named, cliParameters, configFile, TRUE), isTTY)

\* What the command line and the GSTS_ variables give, the variables of the
\* aws cli, and the config files of the aws cli.
GivenOptions ==
    [profile : {Undef, Str("work")}, region : {Undef, Str("eu-west-1")},
     duration : {Undef, Num(900)}, force : {Bool(FALSE), Bool(TRUE)}]

Environments ==
    [AWS_PROFILE : {Undef, Str("dev")}, AWS_REGION : {Undef, Str("us-east-1")},
     AWS_DEFAULT_REGION : {Undef, Str("us-west-2")}]

ConfigSection(region) ==
    [k \in {"region", "duration_seconds", "gsts.force"} |->
        CASE k = "region" -> region
          [] k = "duration_seconds" -> "3600"
          [] OTHER -> "true"]

ConfigFiles ==
    { [p \in {} |-> ConfigSection("")],
      [p \in {"default", "dev", "work"} |->
          CASE p = "default" -> ConfigSection("ap-south-1")
            [] p = "dev" -> ConfigSection("ap-south-2")
            [] OTHER -> ConfigSection("ap-east-1")] }

Configured(revision, given, env, configFile, isTTY, argv) ==
    [called |-> TRUE, revision |-> revision, given |-> given, env |-> env,
     configFile |-> configFile, isTTY |-> isTTY, argv |-> argv]

\* The middleware runs once, on the arguments of the run, before anything
\* else.
Middleware(given, env, configFile, isTTY) ==
    /\ pc = "idle"
    /\ ~lastConfig.called
    /\ lastConfig' = Configured("index", given, env, configFile, isTTY,
                                middleware(InitialArgv(given), env, configFile, isTTY))
    /\ UNCHANGED <<cacheDir, handler, savers, login, lastLog, lastParse, lastExport, pc, args, sessionDuration, requests,
                   responses, outcome, file, saved, lastLoad, lastValid, lastSave, mainRun,
                   lastPrepare>>

ProcessConfig(given, env, configFile, isTTY) ==
    /\ pc = "idle"
    /\ ~lastConfig.called
    /\ lastConfig' = Configured("config-manager", given, env, configFile, isTTY,
                                processConfig(InitialArgv(given), env, configFile, isTTY))
    /\ UNCHANGED <<cacheDir, handler, savers, login, lastLog, lastParse, lastExport, pc, args, sessionDuration, requests,
                   responses, outcome, file, saved, lastLoad, lastValid, lastSave, mainRun,
                   lastPrepare>>

\* The role lists a response is parsed into, and the role ARNs asked for.
MaxRoles == 3

RoleLists == UNION { [1..n -> ParsedRoles] : n \in 0..MaxRoles }

\* An ARN that differs from Foobar's in letter case only, and a proper prefix
\* of Foobar's ARN.
ArnFoobarLowerCase == "arn:aws:iam::123456789:role/foobar"

ArnFoobarPrefix == "arn:aws:iam::123456789:role/Foo"

CustomRoleArns ==
    {Undefined, ""} \cup {ArnOrder[i] : i \in 1..Len(ArnOrder)}
        \cup {ArnFoobarLowerCase, ArnFoobarPrefix}

Init ==
    /\ cacheDir \in BOOLEAN
    /\ pc = "idle"
    /\ args = NoArgs
    /\ sessionDuration = NoValue
    /\ requests = <<>>
    /\ responses = <<>>
    /\ outcome = Pending
    /\ file = NoFile
    /\ saved = [p \in Profiles |-> NotSaved]
    /\ lastLoad = NotLoaded
    /\ lastValid = NotChecked
    /\ lastSave = NeverSaved
    /\ mainRun = NotRun
    /\ lastPrepare = NotPrepared
    /\ lastParse = NotParsed
    /\ lastExport = NotExported
    /\ lastConfig = NotConfigured
    /\ handler = NotHandled
    /\ savers = NoSavers
    /\ login = NotNavigated
    /\ lastLog = NotLogged

Next ==
    \/ \E a \in SamlAssertions, r \in Roles, p \in Profiles, d \in CustomDurations :
           Call(a, r, p, d)
    \/ \E c \in StsCredentials : FirstResolves(c)
    \/ \E e \in StsErrors : FirstRejects(e)
    \/ \E c \in StsCredentials : SecondResolves(c)
    \/ \E e \in StsErrors : SecondRejects(e)
    \/ \E p \in Profiles, s \in Sessions : SaveCredentials(p, s)
    \/ \E p \in Profiles, a \in RoleArns \cup {Undefined} : LoadCredentials(p, a)
    \/ \E t \in Nows : IsValid(t)
    \/ Return
    \/ \E m \in {"0644"} : ExternalChmod(m)
    \/ \E p \in Profiles, arn \in {Undefined} \cup RoleArns : MainCachedSession(p, arn)
    \/ MainEnds

Spec == Init /\ [][Next]_vars

\* prepareRoleWithSAML does not look at the state of the manager: it is checked
\* on its own, over every role list and requested ARN.
PrepareNext ==
    \E parsed \in RoleLists, a \in SamlAssertions, arn \in CustomRoleArns :
        PrepareRoleWithSAML(parsed, a, arn)

PrepareSpec == Init /\ [][PrepareNext]_vars

\* The parser and the preparation of what it parsed.
ParseNext ==
    \/ \E attributes \in RoleAttributes, duration \in SessionDurationAttributes :
           ParseSamlResponse(attributes, duration)
    \/ \E a \in SamlAssertions, arn \in {Undefined, PartFoobar.text, PartGovFoobar.text} :
           PrepareParsed(a, arn)

ParseSpec == Init /\ [][ParseNext]_vars

\* A credentials file that both revisions of the manager write, that is
\* edited between runs, and that is loaded, checked and served.
UpgradeSessions ==
    { NewSession(c.AccessKeyId, c.SecretAccessKey, c.SessionToken, c.Expiration,
                 RoleFoobar, a) :
        c \in {x \in StsCredentials : x.Expiration = DateOf(50000)}, a \in SamlAssertions }

UpgradeCredentials ==
    {c \in LegacyCredentials :
        c.sessionExpiration = DateOf(50000) /\ c.roleArn = RoleFoobar.roleArn}

UpgradeNext ==
    \/ \E p \in Profiles, c \in UpgradeCredentials : SaveCredentialsLegacy(p, c)
    \/ \E p \in Profiles : RemoveExpiration(p)
    \/ \E p \in Profiles, s \in UpgradeSessions : SaveCredentials(p, s)
    \/ \E p \in Profiles, a \in {Undefined, RoleFoobar.roleArn} : LoadCredentials(p, a)
    \/ \E t \in Nows : IsValid(t)
    \/ \E p \in Profiles, arn \in {Undefined} : MainCachedSession(p, arn)
    \/ MainEnds

UpgradeSpec == Init /\ [][UpgradeNext]_vars

\* Invocations that save at the same time, each with one of two sessions.
SaverSessions ==
    { NewSession(c.AccessKeyId, c.SecretAccessKey, c.SessionToken, c.Expiration,
                 RoleFoobar, "T2NjdXB5IE1hcnMK") : c \in StsCredentials }

SaverCredentials ==
    { c \in LegacyCredentials : c.roleArn = RoleFoobar.roleArn }

SaveNext ==
    \/ \E p \in Profiles, s \in SaverSessions : SaveBegins(p, s)
    \/ \E p \in Profiles, c \in SaverCredentials : SaveBeginsLegacy(p, c)
    \/ \E i \in 1..MaxSavers + 1 : SaverReads(i)
    \/ \E i \in 1..MaxSavers + 1 : SaverOpens(i)
    \/ \E i \in 1..MaxSavers + 1 : SaverWrites(i)
    \/ \E i \in 1..MaxSavers + 1 : SaverChmods(i)
    \/ SaversEnd

SaveSpec == Init /\ [][SaveNext]_vars

\* The invocations of a user, with and without the hidden option.
UserArgs ==
    {<<>>, <<"--force">>, <<"--headful">>, <<"--no-headful">>}

LoginNext ==
    \/ \E a \in UserArgs : Invoke(a)
    \/ \E i \in 1..MaxInstances + 1 : CachedSession(i)
    \/ \E i \in 1..MaxInstances + 1 : Intercepts(i)
    \/ \E i \in 1..MaxInstances + 1, url \in {"ServiceLogin", "saml", "console"} : Navigates(i, url)
    \/ \E i \in 1..MaxInstances + 1 : NavigationFails(i)
    \/ InvocationEnds

LoginSpec == Init /\ [][LoginNext]_vars

\* The logger at every verbosity, with and without a terminal.
LogNext ==
    \E call \in LogCalls, v \in 0..MaxVerbosity, isTTY \in BOOLEAN : Log(call, v, isTTY)

LogSpec == Init /\ [][LogNext]_vars

\* The route handler over the responses the identity provider posts and the
\* answers of the token service.
RouteRoleLists ==
    {<<>>, <<RoleFoobar>>, <<RoleAdmin, RoleFoobar>>}

RouteNext ==
    \/ \E parsed \in RouteRoleLists, a \in SamlAssertions,
          arn \in {Undefined, RoleFoobar.roleArn, "arn:aws:iam::123456789:role/Missing"} :
           RoutePrepare(parsed, a, arn)
    \/ \E isTTY \in BOOLEAN, answer \in 0..2, output \in {Undefined, "json"} :
           RouteSelect(isTTY, answer, output)
    \/ \E p \in {"a"}, d \in {NoValue, 60000} : RouteAssume(p, d)
    \/ \E c \in StsCredentials : FirstResolves(c)
    \/ \E e \in StsErrors : FirstRejects(e)
    \/ \E c \in StsCredentials : SecondResolves(c)
    \/ \E e \in StsErrors : SecondRejects(e)
    \/ RouteResumes
    \/ WaitResolves
    \/ WaitRejects
    \/ handler.stage # "calling" /\ Return
    \/ \E allowed \in BOOLEAN : RouteOther(allowed)
    \/ RouteEnds

RouteSpec == Init /\ [][RouteNext]_vars

\* The two revisions of the argument processing, over every combination of
\* what the command line, the environment and the config file give.
ConfigNext ==
    \/ \E given \in GivenOptions, env \in Environments, configFile \in ConfigFiles,
          isTTY \in BOOLEAN : Middleware(given, env, configFile, isTTY)
    \/ \E given \in GivenOptions, env \in Environments, configFile \in ConfigFiles,
          isTTY \in BOOLEAN : ProcessConfig(given, env, configFile, isTTY)

ConfigSpec == Init /\ [][ConfigNext]_vars

\* The earlier revision on its own: it saves, the file is edited, and the
\* credentials are exported.
ExportNext ==
    \/ \E p \in Profiles, c \in LegacyCredentials : SaveCredentialsLegacy(p, c)
    \/ \E p \in Profiles : RemoveExpiration(p)
    \/ \E p \in Profiles \cup {Undefined} : ExportAsJSON(p)

ExportSpec == Init /\ [][ExportNext]_vars

TypeOK ==
    /\ cacheDir \in BOOLEAN
    /\ pc \in {"idle", "send1", "send2", "done", "main"}
    /\ mainRun.called <=> pc = "main"
    /\ mainRun.outcome \in {"", "served", "reauth", "threw"}
    /\ lastSave.modeAfter \in {"", "0600"}
    /\ lastSave.called => ~lastSave.skipped
    /\ Len(requests) = Len(responses) + (IF pc \in {"send1", "send2"} THEN 1 ELSE 0)

(***************************************************************************)
(* Properties of assumeRoleWithSAML                                        *)
(***************************************************************************)

\* The cap-exceeded rejections of the service and the maximum each advertises.
CapErrors ==
    { Err("Error", "ValidationError", MsgCap(<<4, 3, 2, 0, 0>>)),
      Err("Error", "ValidationError", MsgCap(<<3, 6, 0, 0>>)) }

AdvertisedMax(e) == IF e.message = MsgCap(<<4, 3, 2, 0, 0>>) THEN 43200 ELSE 3600

\* The session a credential bundle stands for, for the role and assertion of
\* the running call.
SessionOf(credentials) ==
    [version |-> 1,
     accessKeyId |-> credentials.AccessKeyId,
     secretAccessKey |-> credentials.SecretAccessKey,
     sessionToken |-> credentials.SessionToken,
     expiresAt |-> credentials.Expiration,
     role |-> args.role,
     samlAssertion |-> args.samlAssertion]

\* C1: when the request carrying the caller's duration is rejected with a
\* cap-exceeded validation error advertising a maximum M, the settled call has
\* made exactly two requests, the second with DurationSeconds = M, and, the
\* second being accepted, has returned the session instead of raising.
C1_DurationCapRetry ==
    ( /\ pc = "done"
      /\ args.customSessionDuration \in {900, 60000}
      /\ ~responses[1].ok
      /\ responses[1].error \in CapErrors )
    => /\ Len(requests) = 2
       /\ requests[1].DurationSeconds = args.customSessionDuration
       /\ requests[2].DurationSeconds = AdvertisedMax(responses[1].error)
       /\ Len(responses) = 2
       /\ responses[2].ok =>
            /\ outcome.kind = "returned"
            /\ outcome.defined
            /\ outcome.session = SessionOf(responses[2].credentials)

C1_Witness ==
    /\ pc = "done"
    /\ args.customSessionDuration = 60000
    /\ Len(responses) = 2
    /\ responses[1] = Rejected(Err("Error", "ValidationError", MsgCap(<<4, 3, 2, 0, 0>>)))
    /\ requests[2].DurationSeconds = 43200
    /\ responses[2].ok
    /\ outcome.kind = "returned"
    /\ outcome.defined

\* C2: a second request exists only after the first was rejected with the
\* cap-exceeded validation error; a first request that succeeds is the only
\* request of its call.
C2_SecondRequestOnlyAfterCapError ==
    Len(requests) >= 2 =>
        /\ Len(responses) >= 1
        /\ ~responses[1].ok
        /\ responses[1].error \in CapErrors

\* C3: a validation error about durationSeconds that advertises no maximum
\* makes the call fail with that error, after one request.
C3_NoCapPropagates ==
    ( /\ pc = "done"
      /\ Len(responses) >= 1
      /\ responses[1] = Rejected(Err("Error", "ValidationError", MsgFloor))
      /\ args.customSessionDuration \in {900, 60000} )
    => /\ Len(requests) = 1
       /\ outcome = Threw(Err("Error", "ValidationError", MsgFloor))

\* C4: a call never makes more than two requests; a rejected second request,
\* cap-exceeded or not, settles the call with that rejection.
C4_AtMostTwoRequests ==
    /\ Len(requests) <= 2
    /\ (Len(responses) = 2 /\ ~responses[2].ok) =>
           /\ pc = "done"
           /\ outcome = Threw(responses[2].error)

C4_Witness ==
    /\ pc = "done"
    /\ Len(requests) = 2
    /\ responses[1] = Rejected(Err("Error", "ValidationError", MsgCap(<<4, 3, 2, 0, 0>>)))
    /\ responses[2] = Rejected(Err("Error", "ValidationError", MsgCap(<<3, 6, 0, 0>>)))
    /\ outcome = Threw(Err("Error", "ValidationError", MsgCap(<<3, 6, 0, 0>>)))

\* The rejections that are no validation error about durationSeconds.
OtherErrors ==
    {e \in StsErrors :
        \/ e.code \in {"InvalidIdentityToken", "AccessDenied", "ETIMEDOUT"}
        \/ e.message \in {MsgOtherMember, MsgToken, MsgTransport}}

\* C5: a rejection that is no validation error about durationSeconds is the
\* last answer of its call: no request follows it and the call rejects with
\* that very error.
C5_OtherErrorsPropagate ==
    \A i \in 1..Len(responses) :
        (~responses[i].ok /\ responses[i].error \in OtherErrors) =>
            /\ i = Len(requests)
            /\ pc = "done"
            /\ outcome = Threw(responses[i].error)

C5_Witness ==
    /\ pc = "done"
    /\ args.customSessionDuration = 60000
    /\ Len(requests) = 1
    /\ responses[1] = Rejected(Err("Error", "InvalidIdentityToken", MsgToken))
    /\ outcome = Threw(Err("Error", "InvalidIdentityToken", MsgToken))

\* C6, as claimed: the first request carries the caller's duration whenever
\* one is supplied, else the role's sessionDuration, else no duration.
C6_PrecedenceWheneverSupplied ==
    requests # <<>> =>
        requests[1].DurationSeconds =
            IF args.customSessionDuration # NoValue THEN args.customSessionDuration
            ELSE args.role.sessionDuration

\* C6, amended: the first request carries the caller's duration when a
\* non-zero one is supplied; with none, or with 0, it carries the role's
\* sessionDuration when the role has one and otherwise no duration.
C6_DurationPrecedence ==
    requests # <<>> =>
        /\ args.customSessionDuration \in {900, 60000} =>
               requests[1].DurationSeconds = args.customSessionDuration
        /\ (args.customSessionDuration \in {NoValue, 0} /\ args.role = RoleFoobiz) =>
               requests[1].DurationSeconds = 10000
        /\ (args.customSessionDuration \in {NoValue, 0} /\ args.role = RoleFoobar) =>
               requests[1].DurationSeconds = NoValue

C6_Witness ==
    /\ requests # <<>>
    /\ args.customSessionDuration = 900
    /\ args.role = RoleFoobiz
    /\ requests[1].DurationSeconds = 900

(***************************************************************************)
(* Properties of the session store                                         *)
(***************************************************************************)

\* The role ARN stored in the file for a profile (undefined when absent).
StoredRoleArn(profile) ==
    IF file.exists /\ profile \in DOMAIN IniParse(file.text)
    THEN Get(IniParse(file.text)[profile], "aws_role_arn")
    ELSE Undefined

\* C7: a profile that was saved stays loadable, with the fields it was saved
\* with, whatever other profile was saved to the same file after it.
C7_ProfileIsolation ==
    ( /\ lastLoad.called
      /\ lastLoad.roleArn = Undefined
      /\ saved[lastLoad.profile].saved )
    => /\ lastLoad.result.kind = "returned"
       /\ toIni(lastLoad.result.session) = toIni(saved[lastLoad.profile].session)

\* C8: a load whose expected role ARN equals the stored one returns the
\* session; a role failure needs an expected ARN that differs from the stored
\* one.
C8_RoleCheckOnlyOnMismatch ==
    lastLoad.called =>
        /\ ( /\ StoredRoleArn(lastLoad.profile) # Undefined
             /\ lastLoad.roleArn = StoredRoleArn(lastLoad.profile) )
           => lastLoad.result.kind = "returned"
        /\ ( /\ lastLoad.result.kind = "threw"
             /\ lastLoad.result.error.message = <<Word("Invalid role ARN")>> )
           => /\ lastLoad.roleArn # Undefined
              /\ lastLoad.roleArn # StoredRoleArn(lastLoad.profile)

\* C9: a load expecting role ARN X of a profile stored with role ARN Y # X
\* fails with RoleMismatchError, 'Received role X but expected Y'.
C9_RoleMismatchError ==
    ( /\ lastLoad.called
      /\ lastLoad.roleArn # Undefined
      /\ StoredRoleArn(lastLoad.profile) # Undefined
      /\ lastLoad.roleArn # StoredRoleArn(lastLoad.profile) )
    => /\ lastLoad.result.kind = "threw"
       /\ lastLoad.result.error.name = "RoleMismatchError"
       /\ lastLoad.result.error.message =
              <<Word("Received role"), Word(lastLoad.roleArn),
                Word("but expected"), Word(StoredRoleArn(lastLoad.profile))>>

\* The safety buffer subtracted from the expiration, in milliseconds.
SESSION_EXPIRATION_DELTA == 30000

\* C10: a session is reported valid exactly when its expiration minus the
\* 30 second delta is strictly later than the current time.
C10_ExpiryWindow ==
    lastValid.called =>
        ( lastValid.result <=>
            /\ lastValid.session.expiresAt.valid
            /\ lastValid.session.expiresAt.ms - SESSION_EXPIRATION_DELTA > lastValid.now )

\* C11: a non-headful run serves the cached session (prints it in the
\* requested format, launches no browser, sends no token-exchange request)
\* exactly when the load succeeded, the session is valid and --force is not
\* set; with --force it goes on to re-authenticate though the session it
\* loaded is valid.
C11_CacheServedIffValidUnforced ==
    (mainRun.called /\ ~mainRun.headful) =>
        /\ ( mainRun.outcome = "served" /\ ~mainRun.launched /\ requests = <<>> )
           <=> ( /\ lastLoad.result.kind = "returned"
                 /\ isValid(lastLoad.result.session, mainRun.now)
                 /\ ~mainRun.force )
        /\ ( mainRun.outcome = "served" /\ mainRun.output.printed )
           => /\ mainRun.output.content = lastLoad.result.session
              /\ mainRun.output.format = "json"
        /\ ( /\ mainRun.force
             /\ lastLoad.result.kind = "returned"
             /\ isValid(lastLoad.result.session, mainRun.now) )
           => mainRun.outcome = "reauth" /\ mainRun.launched

\* C11 happens: a run with --force loaded a valid session and went on to the
\* browser.
C11_Witness ==
    /\ mainRun.called
    /\ ~mainRun.headful
    /\ mainRun.force
    /\ lastLoad.result.kind = "returned"
    /\ isValid(lastLoad.result.session, mainRun.now)
    /\ mainRun.outcome = "reauth"

\* C12: when the load of the cached session fails for a missing file, a
\* missing profile section or a stored role other than the requested one, the
\* main routine goes on to re-authenticate.
C12_LoadFailureMeansNoCache ==
    ( /\ mainRun.called
      /\ ~mainRun.headful
      /\ cacheDir
      /\ lastLoad.result.kind = "threw"
      /\ \/ ~file.exists
         \/ lastLoad.profile \notin DOMAIN IniParse(file.text)
         \/ /\ lastLoad.roleArn # Undefined
            /\ StoredRoleArn(lastLoad.profile) # Undefined
            /\ lastLoad.roleArn # StoredRoleArn(lastLoad.profile) )
    => mainRun.outcome = "reauth"

\* The fields of a session that the credentials file stores.
StoredFields(session) ==
    <<session.accessKeyId, session.secretAccessKey, session.sessionToken,
      session.expiresAt, session.role.name, session.role.roleArn,
      session.role.principalArn, session.samlAssertion>>

\* C13: with a credentials file path, a load fails with code ENOENT exactly
\* when the file does not exist; no other failure of load (missing profile,
\* role check, unusable section) carries that code.
C13_MissingFileIsENOENT ==
    (lastLoad.called /\ cacheDir) =>
        ( ~file.exists <=>
            /\ lastLoad.result.kind = "threw"
            /\ lastLoad.result.error.code = "ENOENT" )

\* C13 happens: a manager with a credentials file path loaded while the file
\* was missing, and the load failed with code ENOENT.
C13_Witness ==
    /\ lastLoad.called /\ cacheDir /\ ~file.exists
    /\ lastLoad.result.error.code = "ENOENT"

\* C14: a load of a profile that the existing file has no section for fails
\* with ProfileNotFoundError, 'Profile "<name>" not found in credentials file'.
C14_ProfileNotFoundError ==
    ( /\ lastLoad.called
      /\ cacheDir
      /\ file.exists
      /\ lastLoad.profile \notin DOMAIN IniParse(file.text) )
    => /\ lastLoad.result.kind = "threw"
       /\ lastLoad.result.error.name = "ProfileNotFoundError"
       /\ lastLoad.result.error.message =
              <<Word("Profile"), Word(lastLoad.profile),
                Word("not found in credentials file")>>

C16_LastSaveWins ==
    ( /\ lastSave.called
      /\ lastSave.previous.saved )
    => /\ file.exists
       /\ IniParse(file.text)[lastSave.profile] = toIni(saved[lastSave.profile].session)
       /\ ( /\ lastLoad.called
            /\ lastLoad.profile = lastSave.profile
            /\ lastLoad.roleArn = Undefined )
          => /\ lastLoad.result.kind = "returned"
             /\ toIni(lastLoad.result.session) = toIni(saved[lastSave.profile].session)

\* C16 happens: the profile was saved over a record that differs from the new
\* one in every stored field but the SAML assertion, and was loaded afterwards.
C16_Witness ==
    /\ lastSave.called
    /\ lastSave.previous.saved
    /\ \A i \in 1..7 : StoredFields(lastSave.previous.session)[i]
                         # StoredFields(saved[lastSave.profile].session)[i]
    /\ lastLoad.called
    /\ lastLoad.profile = lastSave.profile
    /\ lastLoad.result.kind = "returned"

\* C17: without a cache directory a successful assumeRoleWithSAML returns the
\* session and writes nothing, and a load after it fails with the
\* file-not-found error (code ENOENT).
C17_CachelessLoadIsNotFound ==
    ~cacheDir =>
        /\ file = NoFile
        /\ (pc = "done" /\ outcome.kind = "returned" /\ outcome.defined)
           => /\ lastSave.skipped
              /\ outcome.session.accessKeyId # ""
        /\ (lastSave.skipped /\ lastLoad.called)
           => /\ lastLoad.result.kind = "threw"
              /\ lastLoad.result.error.code = "ENOENT"

\* C18: every save leaves the credentials file with mode 0600, whether the
\* file was created by the save or was there before with other bits.
C18_OwnerOnlyMode ==
    lastSave.called => lastSave.modeAfter = "0600"

\* C18 happens: a save wrote to a file that was there with mode 0644.
C18_Witness ==
    /\ lastSave.called
    /\ lastSave.modeBefore = "0644"
    /\ file.mode = "0600"

\* How many times a role occurs in a list.
Occurrences(roles, role) == Cardinality({i \in 1..Len(roles) : roles[i] = role})

\* The list holds every role of the parsed list, as many times, and no other.
IsCompleteList(list, parsed) ==
    /\ Len(list) = Len(parsed)
    /\ \A i \in 1..Len(parsed) : Occurrences(list, parsed[i]) = Occurrences(parsed, parsed[i])

\* C19: with no role ARN requested, the call returns the one parsed role as
\* roleToAssume when exactly one was parsed and null when two or more were;
\* availableRoles is the full list either way.
C19_SingleRoleAutoSelect ==
    (lastPrepare.called /\ ~TruthyStr(lastPrepare.customRoleArn)) =>
        /\ lastPrepare.kind = "returned"
        /\ Len(lastPrepare.roles) = 1
           => /\ ~lastPrepare.roleIsNull
              /\ lastPrepare.roleToAssume = lastPrepare.roles[1]
        /\ Len(lastPrepare.roles) >= 2 => lastPrepare.roleIsNull
        /\ IsCompleteList(lastPrepare.availableRoles, lastPrepare.roles)

\* C19 happens: several roles were parsed, none was asked for, and the list
\* came back in another order than it was parsed in.
C19_Witness ==
    /\ lastPrepare.called
    /\ lastPrepare.customRoleArn = Undefined
    /\ Len(lastPrepare.roles) >= 2
    /\ lastPrepare.kind = "returned"
    /\ lastPrepare.availableRoles # lastPrepare.roles

\* C20: a requested role ARN that no parsed role has makes the call fail with
\* RoleNotFoundError carrying the complete list of parsed roles (the empty
\* list when nothing was parsed), and no role is returned.
C20_RoleNotFoundCarriesAllRoles ==
    ( /\ lastPrepare.called
      /\ TruthyStr(lastPrepare.customRoleArn)
      /\ \A i \in 1..Len(lastPrepare.roles) :
            lastPrepare.roles[i].roleArn # lastPrepare.customRoleArn )
    => /\ lastPrepare.kind = "threw"
       /\ lastPrepare.error.name = "RoleNotFoundError"
       /\ IsCompleteList(lastPrepare.errorRoles, lastPrepare.roles)
       /\ lastPrepare.roleIsNull
       /\ lastPrepare.availableRoles = <<>>

\* C20 happens: the requested ARN was not among several parsed roles.
C20_Witness ==
    /\ lastPrepare.called
    /\ lastPrepare.kind = "threw"
    /\ Len(lastPrepare.roles) >= 2
    /\ Len(lastPrepare.errorRoles) = Len(lastPrepare.roles)

\* C21: a requested role ARN that a parsed role has, compared as the exact
\* string, makes the call return a parsed role of that ARN as roleToAssume
\* with the full list as availableRoles; a requested ARN that no parsed role
\* has exactly, such as one differing in letter case or a prefix, is not found.
C21_ExactArnMatch ==
    (lastPrepare.called /\ TruthyStr(lastPrepare.customRoleArn)) =>
        IF \E i \in 1..Len(lastPrepare.roles) :
              lastPrepare.roles[i].roleArn = lastPrepare.customRoleArn
        THEN /\ lastPrepare.kind = "returned"
             /\ ~lastPrepare.roleIsNull
             /\ lastPrepare.roleToAssume.roleArn = lastPrepare.customRoleArn
             /\ \E i \in 1..Len(lastPrepare.roles) :
                   lastPrepare.roles[i] = lastPrepare.roleToAssume
             /\ IsCompleteList(lastPrepare.availableRoles, lastPrepare.roles)
        ELSE /\ lastPrepare.kind = "threw"
             /\ lastPrepare.error.name = "RoleNotFoundError"

\* C21 happens: Foobar was parsed and the ARN asked for is Foobar's in lower
\* case, which was not found.
C21_Witness ==
    /\ lastPrepare.called
    /\ lastPrepare.customRoleArn = ArnFoobarLowerCase
    /\ \E i \in 1..Len(lastPrepare.roles) : lastPrepare.roles[i] = RoleFoobar
    /\ lastPrepare.kind = "threw"

\* The place of a role ARN in the ascending order of strings.
ArnRank(arn) == CHOOSE i \in 1..Len(ArnOrder) : ArnOrder[i] = arn

\* The roleArn values of the list never decrease.
IsAscending(list) ==
    \A i, j \in 1..Len(list) :
        i < j => ArnRank(list[i].roleArn) <= ArnRank(list[j].roleArn)

\* C22: for two or more parsed roles in any order, the availableRoles that
\* the call returns and the roles that RoleNotFoundError carries are
\* ascending by roleArn and are exactly the parsed roles.
C22_RolesSortedAndComplete ==
    (lastPrepare.called /\ Len(lastPrepare.roles) >= 2) =>
        /\ lastPrepare.kind = "returned"
           => /\ IsAscending(lastPrepare.availableRoles)
              /\ IsCompleteList(lastPrepare.availableRoles, lastPrepare.roles)
        /\ lastPrepare.kind = "threw"
           => /\ IsAscending(lastPrepare.errorRoles)
              /\ IsCompleteList(lastPrepare.errorRoles, lastPrepare.roles)

\* C22 happens: three roles were parsed in descending order of ARN and the
\* call returned them.
C22_Witness ==
    /\ lastPrepare.called
    /\ lastPrepare.kind = "returned"
    /\ Len(lastPrepare.roles) = 3
    /\ lastPrepare.roles[1] = RoleAdmin
    /\ lastPrepare.roles[3] \in {RoleFoobar, RoleFoobarOkta}

\* An IAM role ARN, and an IAM SAML provider ARN, of one of the partitions
\* aws, aws-us-gov and aws-cn.
IsRoleArn(part) ==
    /\ part.isArn
    /\ part.partition \in {"aws", "aws-us-gov", "aws-cn"}
    /\ part.account \in DecimalStrings
    /\ part.resource = "role"
    /\ part.name # ""

IsPrincipalArn(part) ==
    /\ part.isArn
    /\ part.partition \in {"aws", "aws-us-gov", "aws-cn"}
    /\ part.account \in DecimalStrings
    /\ part.resource = "saml-provider"
    /\ part.name # ""

\* The value holds a role ARN and a principal ARN, in either order.
IsValidValue(attribute) ==
    \E i, j \in 1..Len(attribute) : IsRoleArn(attribute[i]) /\ IsPrincipalArn(attribute[j])

\* C23: the parser returns as many roles as the Role attribute has valid
\* values, whatever malformed values stand among them, and every returned
\* role has a roleArn and a principalArn.
C23_OneRolePerValidValue ==
    lastParse.called =>
        /\ Len(lastParse.roles) =
              Cardinality({i \in 1..Len(lastParse.attributes) :
                              IsValidValue(lastParse.attributes[i])})
        /\ \A k \in 1..Len(lastParse.roles) :
              lastParse.roles[k].roleArn # "" /\ lastParse.roles[k].principalArn # ""

\* C24: every value whose role ARN and principal ARN are of the partitions
\* aws, aws-us-gov or aws-cn yields a role with exactly these two ARNs.
C24_PartitionsKept ==
    lastParse.called =>
        \A v \in 1..Len(lastParse.attributes) :
            \A i, j \in 1..Len(lastParse.attributes[v]) :
                ( /\ IsRoleArn(lastParse.attributes[v][i])
                  /\ IsPrincipalArn(lastParse.attributes[v][j]) )
                => \E k \in 1..Len(lastParse.roles) :
                      /\ lastParse.roles[k].roleArn = lastParse.attributes[v][i].text
                      /\ lastParse.roles[k].principalArn = lastParse.attributes[v][j].text

\* C25: when no value of the Role attribute holds both a role ARN and a
\* principal ARN the parser returns the empty list, and preparing the empty
\* list with no role ARN asked for returns a null roleToAssume and an empty
\* availableRoles.
C25_NothingRecoverable ==
    /\ ( /\ lastParse.called
         /\ \A v \in 1..Len(lastParse.attributes) : ~IsValidValue(lastParse.attributes[v]) )
       => lastParse.roles = <<>>
    /\ ( /\ lastParse.called
         /\ lastParse.roles = <<>>
         /\ lastPrepare.called
         /\ ~TruthyStr(lastPrepare.customRoleArn) )
       => /\ lastPrepare.kind = "returned"
          /\ lastPrepare.roleIsNull
          /\ lastPrepare.availableRoles = <<>>

\* C25 happens: the Role attribute had a role with no provider and text that
\* is no ARN, nothing was parsed, and the empty list was prepared with no
\* role ARN asked for.
C25_Witness ==
    /\ lastParse.called
    /\ lastParse.attributes = <<AttrRoleOnly, AttrNotArn>>
    /\ lastParse.roles = <<>>
    /\ lastPrepare.called
    /\ lastPrepare.customRoleArn = Undefined
    /\ lastPrepare.kind = "returned"

\* The section of the profile that was loaded last, as the file holds it.
LoadedSection == IniParse(file.text)[lastLoad.profile]

\* The file holds a section for the profile that was loaded last, and the
\* load was given no role ARN.
SectionWasLoaded ==
    /\ cacheDir
    /\ lastLoad.called
    /\ lastLoad.roleArn = Undefined
    /\ file.exists
    /\ lastLoad.profile \in DOMAIN IniParse(file.text)

\* C26: loading a section that holds aws_role_arn but neither aws_role_name
\* nor aws_role_principal_arn returns a session whose role has the stored
\* role ARN.
C26_OlderSchemaLoads ==
    ( /\ SectionWasLoaded
      /\ TruthyStr(Get(LoadedSection, "aws_role_arn"))
      /\ "aws_role_name" \notin DOMAIN LoadedSection
      /\ "aws_role_principal_arn" \notin DOMAIN LoadedSection )
    => /\ lastLoad.result.kind = "returned"
       /\ lastLoad.result.session.role.roleArn = LoadedSection["aws_role_arn"]

\* C27: a section with no session expiration is never reported valid by the
\* validity check, whatever the current time, and is never served from the
\* cache.
C27_MissingExpirationNeverValid ==
    ( /\ SectionWasLoaded
      /\ "aws_session_expiration" \notin DOMAIN LoadedSection )
    => /\ lastValid.called => ~lastValid.result
       /\ mainRun.outcome # "served"

\* The JSON members the earlier revision exports for a stored section.
StoredMembers(section) ==
    << JsonNumber("Version", 1) >>
        \o (IF "aws_access_key_id" \in DOMAIN section
            THEN <<JsonString("AccessKeyId", section["aws_access_key_id"])>> ELSE <<>>)
        \o (IF "aws_secret_access_key" \in DOMAIN section
            THEN <<JsonString("SecretAccessKey", section["aws_secret_access_key"])>> ELSE <<>>)
        \o (IF "aws_session_token" \in DOMAIN section
            THEN <<JsonString("SessionToken", section["aws_session_token"])>> ELSE <<>>)
        \o (IF "aws_session_expiration" \in DOMAIN section
            THEN <<JsonString("Expiration", section["aws_session_expiration"])>> ELSE <<>>)

\* C28: the export is the object with the one member Version 1 when the file
\* or the section of the profile is missing; otherwise it is Version 1
\* followed by the AccessKeyId, SecretAccessKey, SessionToken and Expiration
\* that the section stores.
C28_ExportAsJSON ==
    lastExport.called =>
        IF ~file.exists \/ lastExport.profile \notin DOMAIN IniParse(file.text)
        THEN lastExport.json = <<JsonNumber("Version", 1)>>
        ELSE lastExport.json = StoredMembers(IniParse(file.text)[lastExport.profile])

\* C28 happens: a profile was exported from a file that holds two sections,
\* and the export has all five members.
C28_Witness ==
    /\ lastExport.called
    /\ file.exists
    /\ DOMAIN IniParse(file.text) = Profiles
    /\ Len(lastExport.json) = 5
    /\ lastExport.json[5].k = "Expiration"

\* What the command line or the GSTS_ variables give for the profile, then
\* AWS_PROFILE, then 'default'.
ExpectedProfile ==
    IF lastConfig.given.profile # Undef THEN lastConfig.given.profile
    ELSE IF lastConfig.env.AWS_PROFILE # Undef THEN lastConfig.env.AWS_PROFILE
    ELSE Str("default")

\* C29: the effective profile is the one given with --aws-profile or
\* GSTS_AWS_PROFILE when there is one, else AWS_PROFILE when it is defined,
\* else 'default'.
C29_ProfilePrecedence ==
    lastConfig.called => lastConfig.argv["awsProfile"] = ExpectedProfile

\* The value the config file holds for a key in the section of the profile
\* the run is using (undefined when it holds none).
ActiveConfig(awsConfigKey) ==
    ConfigValue(lastConfig.configFile, lastConfig.argv["awsProfile"], awsConfigKey)

\* What the command line and the environment supply for the region.
SuppliedRegion ==
    IF lastConfig.given.region # Undef THEN lastConfig.given.region
    ELSE IF lastConfig.env.AWS_REGION # Undef THEN lastConfig.env.AWS_REGION
    ELSE lastConfig.env.AWS_DEFAULT_REGION

\* C30: for the region, the session duration and --force, the value the run
\* uses is the one the command line or the environment supplies when there
\* is one, and else the value of the active profile's section of the config
\* file.
C30_ConfigFileFallback ==
    lastConfig.called =>
        /\ lastConfig.argv["awsRegion"] =
              (IF SuppliedRegion # Undef THEN SuppliedRegion ELSE ActiveConfig("region"))
        /\ IF lastConfig.given.duration # Undef
           THEN lastConfig.argv["awsSessionDuration"] = lastConfig.given.duration
           ELSE IF ActiveConfig("duration_seconds") = Str("3600")
           THEN lastConfig.argv["awsSessionDuration"] = Num(3600)
           ELSE lastConfig.argv["awsSessionDuration"] = Undef
        /\ IF lastConfig.given.force = Bool(TRUE) THEN ToBoolean(lastConfig.argv["force"])
           ELSE ToBoolean(lastConfig.argv["force"]) = (ActiveConfig("gsts.force") = Str("true"))

\* The handler's run was on the SAML request and assumeRoleWithSAML handed
\* back a session that, with a cache directory, is in the profile store.
AssumeSucceeded ==
    /\ handler.result.kind = "returned"
    /\ handler.result.defined
    /\ cacheDir => \E p \in Profiles : saved[p] = Saved(handler.result.session)

\* The role preparation or the token exchange of the handler's run failed:
\* an error was thrown, or the token service rejected the only request.
AssumeFailed ==
    \/ handler.kind = "RoleNotFoundError"
    \/ handler.result.kind = "threw"
    \/ handler.result.kind = "returned" /\ ~handler.result.defined

\* C31: the SAML request is continued and the session printed only after
\* assumeRoleWithSAML succeeded, stored session included; when the role
\* preparation or the token exchange failed the request is aborted, not
\* continued, and nothing is printed.
C31_ContinueOnlyAfterSuccess ==
    /\ (handler.kind # "allowed" /\ (handler.continued > 0 \/ handler.printed))
          => AssumeSucceeded
    /\ (handler.stage = "settled" /\ AssumeFailed)
          => (handler.aborted > 0 /\ handler.continued = 0 /\ ~handler.printed)

\* C32: a request the handler has dealt with was continued or aborted, once.
C32_ResolvedExactlyOnce ==
    /\ handler.continued + handler.aborted <= 1
    /\ handler.stage = "settled" => handler.continued + handler.aborted = 1

\* C33: with several roles in the assertion, no role ARN asked for and no
\* terminal, the handler's run reaches the token exchange with a role of the
\* list.
C33_NonInteractiveAssumes ==
    (/\ handler.stage = "settled"
     /\ ~handler.isTTY
     /\ handler.customRoleArn = Undefined
     /\ Len(handler.availableRoles) > 1)
        => (/\ handler.result.kind # "pending"
            /\ \E i \in 1..Len(handler.availableRoles) :
                   handler.roleToAssume = handler.availableRoles[i])

\* The handler's run ended without a role: the assertion had no role, the
\* prompt was cancelled, or the role asked for was not in the assertion.
NoRoleSelected ==
    /\ handler.stage \in {"calling", "waiting", "settled"}
    /\ handler.kind # "allowed" /\ handler.kind # "blockedbyclient"
    /\ \/ handler.availableRoles = <<>>
       \/ handler.kind = "cancelled"
       \/ handler.kind = "RoleNotFoundError"

\* C34: while and after a handler's run that has no role, no
\* AssumeRoleWithSAML request has been sent, the call has no result and the
\* credentials file and the stored sessions are as the run found them; a
\* request that is sent names a role of the assertion.
C34_NoRequestWithoutRole ==
    /\ NoRoleSelected =>
          /\ requests = <<>>
          /\ handler.result.kind = "pending"
          /\ file = handler.fileBefore
    /\ (handler.stage = "calling" /\ requests # <<>>) =>
          \E i \in 1..Len(handler.availableRoles) :
              requests[1].RoleArn = handler.availableRoles[i].roleArn

\* C34 happens: a run on an assertion without roles was aborted while the
\* file held a section saved before.
C34_Witness ==
    /\ NoRoleSelected
    /\ handler.stage = "settled"
    /\ handler.availableRoles = <<>>
    /\ handler.aborted = 1
    /\ file.exists

\* The text has a line with a secret of a session.
HoldsSecrets(text) ==
    \E i \in 1..Len(text) :
        /\ text[i].kind = "pair"
        /\ text[i].k \in {"aws_access_key_id", "aws_secret_access_key",
                          "aws_session_token", "aws_saml_assertion"}

\* C36: whenever, during or after a save, the credentials file holds secrets
\* of a session, its permission bits are 0600.
C36_SecretsNeverExposed ==
    (/\ savers # NoSavers
     /\ \A i \in 1..Len(savers) : savers[i].revision = "session"
     /\ file.exists
     /\ HoldsSecrets(file.text))
        => file.mode = "0600"

\* The invocation whose write happened last.
LastWriter ==
    CHOOSE i \in 1..Len(savers) : savers[i].order = Len(savers)

\* C37: after two or more invocations that saved at the same time have
\* ended, the file loads, and the section of the last writer's profile is
\* the one the last writer wrote.
C37_LastWriterWins ==
    (/\ Len(savers) >= 2
     /\ \A i \in 1..Len(savers) : savers[i].stage = "done")
        => /\ file.exists
           /\ savers[LastWriter].profile \in DOMAIN IniParse(file.text)
           /\ IniParse(file.text)[savers[LastWriter].profile] = savers[LastWriter].given

\* C38: an instance that was spawned has a parent that is not headful, had
\* intercepted no SAML response and was on the ServiceLogin page; a headful
\* instance has spawned none; and at most one of the spawned instances of an
\* invocation is headful.
C38_HeadfulSpawnedOnce ==
    /\ \A j \in 1..Len(login.runs) :
          login.runs[j].parent # 0 =>
              /\ ~login.runs[login.runs[j].parent].headful
              /\ ~login.runs[j].parentAuthenticated
              /\ login.runs[j].parentUrl = "ServiceLogin"
    /\ \A i \in 1..Len(login.runs) : login.runs[i].headful => login.runs[i].spawned = 0
    /\ Cardinality({j \in 1..Len(login.runs) :
                        login.runs[j].parent # 0 /\ login.runs[j].headful}) <= 1

\* C38 happens: the user's instance spawned a headful one, which ended on
\* the login page as well.
C38_Witness ==
    /\ Len(login.runs) = 2
    /\ login.runs[2].parent = 1
    /\ login.runs[2].headful
    /\ login.runs[2].stage = "ended"
    /\ login.runs[2].url = "ServiceLogin"
    /\ ~login.runs[2].isAuthenticated

\* C39: without a terminal no debug message is written, and no message that
\* is written carries a secret, whatever the verbosity.
C39_NoSecretsWithoutTTY ==
    (lastLog.called /\ ~lastLog.isTTY /\ lastLog.emitted)
        => (lastLog.level # "debug" /\ lastLog.secrets = {})

\* C35: every step of an assumeRoleWithSAML call other than the one that
\* returns the session leaves the credentials file as it is, so a call that
\* ends with a rejected request or a rejected retry has not touched the file.
C35_FailedCallLeavesFile ==
    [][(pc \in {"send1", "send2"} /\ ~(outcome'.kind = "returned" /\ outcome'.defined))
          => file' = file]_vars

\* C35 happens: the retry of a call was rejected while the file held a
\* section saved before.
C35_Witness ==
    /\ pc = "done"
    /\ outcome.kind = "threw"
    /\ Len(responses) = 2
    /\ file.exists

====
